---- MODULE Spec2Model ----
(***************************************************************************)
(* Model of the news search engine: UserQuery validation                   *)
(* (api_client/models.py), expansion of a UserQuery into API-compliant     *)
(* requests (UserQuery.generate_*_queries), and the paginating client      *)
(* (NewsAPIClient.search_everything / search_top_headlines / get_sources), *)
(* and the tool dispatch loop of the agent (NewsAgent.process_request).    *)
(*                                                                         *)
(* Optional values: Python None is the empty tuple, a present value v is   *)
(* the one-element tuple <<v>>.  A Python list is a sequence.              *)
(***************************************************************************)
EXTENDS Integers, Sequences, FiniteSets, TLC

VARIABLES
    raw,            \* keyword arguments given to UserQuery(...)
    uq,             \* the UserQuery after __post_init__ (or the failed construction)
    gen,            \* which generate_*_queries method has been iterated
    out,            \* the requests it yielded, or that it raised
    op,             \* the client operation in progress
    pc,             \* position of the client operation
    reqs,           \* the requests the generator yields to the operation
    qi,             \* index in reqs of the request being paginated
    current_page,   \* news_client.py current_page
    query_articles, \* news_client.py query_articles
    all_articles,   \* news_client.py all_articles / all_sources
    result,         \* what the operation returned (or that it raised)
    world,          \* the provider's content: how record keys repeat
    fetched,        \* history: every record received in an ok response
    hist,           \* history: every HTTP round trip, request and outcome
    conversation_history,   \* news_agent.py self.conversation_history
    session_id,             \* process_request's session_id argument
    messages,               \* process_request's messages list
    aliased,                \* messages is the list object stored in conversation_history
    intermediate_responses, \* process_request's intermediate_responses
    apc,                    \* position of process_request
    returned,               \* what process_request returned
    oracle_calls,           \* history: each oracle call of this call, messages sent and response
    dispatched,             \* history: every _execute_tool call of this call, in order
    used,                   \* history: oracle calls made by earlier process_request calls
    entry_history,          \* history: conversation_history when this call was made
    user_input,     \* query_optimizer.py optimize_query's user_input argument
    llm,            \* what the optimizer's LLM call did: raised, or its response text
    user_queries,   \* what optimize_query returned
    search_result,  \* a SearchResult object: total_found and articles
    owner,          \* which code owns the NewsAPIClient
    owner_pc,       \* position of the owner
    http_session,   \* NewsAPIClient.session: not created, open or closed
    query_response  \* api_server/main.py: what the /query endpoint answered last

agentVars == <<conversation_history, session_id, messages, aliased,
               intermediate_responses, apc, returned, oracle_calls, dispatched,
               used, entry_history>>

vars == <<raw, uq, gen, out, op, pc, reqs, qi, current_page, query_articles,
          all_articles, result, world, fetched, hist, conversation_history,
          session_id, messages, aliased, intermediate_responses, apc, returned,
          oracle_calls, dispatched, used, entry_history, user_input, llm,
          user_queries, search_result, owner, owner_pc, http_session,
          query_response>>

optimizerVars == <<user_input, llm, user_queries>>

ownerVars == <<owner, owner_pc, http_session>>

otherVars == <<user_input, llm, user_queries, search_result, owner, owner_pc,
               http_session, query_response>>

----------------------------------------------------------------------------
(* Optional values and small helpers *)

None == <<>>

Some(v) == <<v>>

Val(o) == o[1]

\* Python truthiness of an Optional[List] / Optional[str]: None, [] and "" are falsy
TruthySeq(o) == o # None /\ Len(Val(o)) > 0

\* Python truthiness of an int: 0 is falsy
TruthyInt(n) == n # 0

Min(a, b) == IF a <= b THEN a ELSE b

Max(a, b) == IF a >= b THEN a ELSE b

Range(s) == {s[i] : i \in 1..Len(s)}

RECURSIVE Flatten(_)
\* Concatenation of a sequence of sequences
Flatten(ss) == IF ss = <<>> THEN <<>> ELSE Head(ss) \o Flatten(Tail(ss))

----------------------------------------------------------------------------
(* Allow-lists of the validators *)

valid_fields == {"title", "description", "content"}

allowed_sortBy == {"relevancy", "popularity", "publishedAt"}

allowed_langs_list ==
    <<"ar", "de", "en", "es", "fr", "he", "it", "nl", "no", "pt", "ru", "sv", "ud", "zh">>

allowed_langs == Range(allowed_langs_list)

valid_countries_list ==
    <<"ae", "ar", "at", "au", "be", "bg", "br", "ca", "ch", "cn", "co", "cu", "cz", "de",
      "eg", "fr", "gb", "gr", "hk", "hu", "id", "ie", "il", "in", "it", "jp", "kr", "lt",
      "lv", "ma", "mx", "my", "ng", "nl", "no", "nz", "ph", "pl", "pt", "ro", "rs", "ru",
      "sa", "se", "sg", "si", "sk", "th", "tr", "tw", "ua", "us", "ve", "za">>

valid_countries == Range(valid_countries_list)

valid_categories_list ==
    <<"business", "entertainment", "general", "health", "science", "sports", "technology">>

valid_categories == Range(valid_categories_list)

\* Tokens the inputs are drawn from that are not already lower case, with str.lower()
UpperTokens ==
    [t \in {"EN", "De", "US", "Gb", "Technology", "SPORTS", "Title", "CONTENT",
            "Relevancy", "BBC.co.uk", "ZA", "Business"} |->
        CASE t = "EN" -> "en"
          [] t = "De" -> "de"
          [] t = "US" -> "us"
          [] t = "Gb" -> "gb"
          [] t = "Technology" -> "technology"
          [] t = "SPORTS" -> "sports"
          [] t = "Title" -> "title"
          [] t = "CONTENT" -> "content"
          [] t = "Relevancy" -> "relevancy"
          [] t = "BBC.co.uk" -> "bbc.co.uk"
          [] t = "ZA" -> "za"
          [] t = "Business" -> "business"]

\* str.lower() on the token alphabet
Lower(t) == IF t \in DOMAIN UpperTokens THEN UpperTokens[t] ELSE t

\* validators.domain(d): the hostnames of the token alphabet that are well formed
WellFormedDomains == {"bbc.co.uk", "BBC.co.uk", "cnn.com"}

\* datetime.fromisoformat on the date strings of the token alphabet (after
\* replace('Z', '+00:00')); a string outside this map raises ValueError
IsoDates ==
    [s \in {"2024-01-15", "2024-01-15T10:30:00Z"} |->
        CASE s = "2024-01-15" -> [date |-> "2024-01-15", time |-> "00:00:00"]
          [] s = "2024-01-15T10:30:00Z" -> [date |-> "2024-01-15", time |-> "10:30:00"]]

----------------------------------------------------------------------------
(* Validation functions, models.py:17-171 *)

validate_query_string(q) == IF Len(q) > 500 THEN SubSeq(q, 1, 500) ELSE q

RECURSIVE LowerValid(_, _)
\* [x.lower() for x in xs if x.lower() in allowed]
LowerValid(xs, allowed) ==
    IF xs = <<>> THEN <<>>
    ELSE IF Lower(Head(xs)) \in allowed
         THEN <<Lower(Head(xs))>> \o LowerValid(Tail(xs), allowed)
         ELSE LowerValid(Tail(xs), allowed)

\* ValidateAllowList without the test against the complete allow-list
ValidateAllowListNoCollapse(xs, allowed) ==
    IF ~TruthySeq(xs) THEN None
    ELSE LET valid == LowerValid(Val(xs), allowed)
         IN IF valid = <<>> THEN None ELSE Some(valid)

\* The common shape of validate_searchIn / validate_language_codes /
\* validate_country_code / validate_categories
ValidateAllowList(xs, allowed) ==
    IF ~TruthySeq(xs) THEN None
    ELSE LET valid == LowerValid(Val(xs), allowed)
         IN IF valid = <<>> THEN None
            ELSE IF Range(valid) = allowed THEN None
            ELSE Some(valid)

validate_searchIn(searchIn) == ValidateAllowList(searchIn, valid_fields)

validate_language_codes(language_codes) == ValidateAllowList(language_codes, allowed_langs)

validate_country_code(country_codes) == ValidateAllowList(country_codes, valid_countries)

validate_categories(categories) == ValidateAllowList(categories, valid_categories)

validate_domains(domains) ==
    IF ~TruthySeq(domains) THEN None
    ELSE Some(SelectSeq(Val(domains), LAMBDA d : d \in WellFormedDomains))

\* validate_sortBy comparing in lower case and returning the allowed spelling
validate_sortBy_ignoring_case(sortBy) ==
    IF ~TruthySeq(sortBy) THEN None
    ELSE IF \A a \in allowed_sortBy : Lower(a) # Lower(Val(sortBy)) THEN None
    ELSE Some(CHOOSE a \in allowed_sortBy : Lower(a) = Lower(Val(sortBy)))

validate_sortBy(sortBy) ==
    IF ~TruthySeq(sortBy) THEN None
    ELSE IF Val(sortBy) \notin allowed_sortBy THEN None
    ELSE sortBy

\* A date argument is None, a native datetime [kind |-> "datetime", dt |-> ...]
\* or a string [kind |-> "str", s |-> ...].  'if self.from_date and
\* isinstance(self.from_date, str)': only a non-empty string is parsed
DateIsParsed(d) == d # None /\ Val(d).kind = "str" /\ Val(d).s # ""

\* DateRaises when the empty string is parsed as well
DateRaisesOnEmpty(d) == d # None /\ Val(d).kind = "str" /\ Val(d).s \notin DOMAIN IsoDates

DateRaises(d) == DateIsParsed(d) /\ Val(d).s \notin DOMAIN IsoDates

\* The field after __post_init__: a datetime [date, time], or the empty string
\* left as it was given
ConvertDate(d) ==
    IF d = None THEN None
    ELSE IF DateIsParsed(d) THEN Some(IsoDates[Val(d).s])
    ELSE IF Val(d).kind = "str" THEN d
    ELSE Some(Val(d).dt)

\* 'if self.from_date': a datetime is truthy, the empty string is not
TruthyDate(d) == d # None /\ "date" \in DOMAIN Val(d)

\* UserQuery.__post_init__: the validated UserQuery, or [ok |-> FALSE] when
\* datetime.fromisoformat raises
UserQueryInit(r) ==
    IF DateRaises(r.from_date) \/ DateRaises(r.to_date)
    THEN [ok |-> FALSE]
    ELSE [ok |-> TRUE,
          q |-> IF TruthySeq(r.q) THEN Some(validate_query_string(Val(r.q))) ELSE r.q,
          searchIn |-> validate_searchIn(r.searchIn),
          sources |-> r.sources,
          domains |-> validate_domains(r.domains),
          excludeDomains |-> validate_domains(r.excludeDomains),
          from_date |-> ConvertDate(r.from_date),
          to_date |-> ConvertDate(r.to_date),
          sortBy |-> validate_sortBy(r.sortBy),
          languages |-> validate_language_codes(r.languages),
          countries |-> validate_country_code(r.countries),
          categories |-> validate_categories(r.categories),
          pageSize |-> r.pageSize,
          max_results |-> r.max_results]

----------------------------------------------------------------------------
(* API-compliant query classes, models.py:178-289 *)

\* The provider's maximum number of sources per request (models.py:208, 254, 370, 398)
SourceChunkSize == 20

\* The provider's maximum page size (models.py:201, 247)
MaxPageSize == 100

\* EverythingQuery that takes its page from the pagination in progress, as a
\* generator handing out one shared request object again would
EverythingQueryKeepingPage(u, lang, source_chunk) ==
    [q |-> u.q, searchIn |-> u.searchIn, sources |-> source_chunk,
     domains |-> u.domains, excludeDomains |-> u.excludeDomains,
     from_date |-> u.from_date, to_date |-> u.to_date, language |-> lang,
     sortBy |-> u.sortBy, pageSize |-> u.pageSize, page |-> current_page]

EverythingQuery(u, lang, source_chunk) ==
    [q |-> u.q, searchIn |-> u.searchIn, sources |-> source_chunk,
     domains |-> u.domains, excludeDomains |-> u.excludeDomains,
     from_date |-> u.from_date, to_date |-> u.to_date, language |-> lang,
     sortBy |-> u.sortBy, pageSize |-> u.pageSize, page |-> 1]

TopHeadlinesQuery(u, country, category, source_chunk) ==
    [q |-> u.q, country |-> country, category |-> category,
     sources |-> source_chunk, pageSize |-> u.pageSize, page |-> 1]

SourcesQuery(category, language, country) ==
    [category |-> category, language |-> language, country |-> country]

\* An API parameter that is only sent when its field is truthy
ParamIf(o) == IF TruthySeq(o) THEN o ELSE None

\* ','.join(self.sources[:20])
JoinSources(o) ==
    IF TruthySeq(o) THEN Some(SubSeq(Val(o), 1, Min(Len(Val(o)), SourceChunkSize)))
    ELSE None

\* EverythingQuery.to_api_params
EverythingParams(r) ==
    [q |-> r.q,
     page |-> IF TruthyInt(r.page) THEN r.page ELSE 1,
     pageSize |-> IF TruthyInt(r.pageSize) THEN Min(r.pageSize, MaxPageSize) ELSE MaxPageSize,
     searchIn |-> ParamIf(r.searchIn),
     sources |-> JoinSources(r.sources),
     domains |-> ParamIf(r.domains),
     excludeDomains |-> ParamIf(r.excludeDomains),
     from |-> IF TruthyDate(r.from_date) THEN Some(Val(r.from_date).date) ELSE None,
     to |-> IF TruthyDate(r.to_date) THEN Some(Val(r.to_date).date) ELSE None,
     language |-> ParamIf(r.language),
     sortBy |-> ParamIf(r.sortBy)]

\* TopHeadlinesQuery.to_api_params
HeadlinesParams(r) ==
    [page |-> r.page,
     pageSize |-> Min(r.pageSize, MaxPageSize),
     q |-> ParamIf(r.q),
     sources |-> JoinSources(r.sources),
     country |-> IF TruthySeq(r.sources) THEN None ELSE ParamIf(r.country),
     category |-> IF TruthySeq(r.sources) THEN None ELSE ParamIf(r.category)]

\* SourcesQuery.to_api_params
SourcesParams(r) ==
    [category |-> ParamIf(r.category),
     language |-> ParamIf(r.language),
     country |-> ParamIf(r.country)]

----------------------------------------------------------------------------
(* Expansion, models.py:357-443.  A generator is modelled by what iterating it
   to the end gives: [raises |-> whether it raised, yields |-> the requests
   it yielded before that, in order]. *)

\* SourceChunks with the slice one short: sources[i:i+19] at a step of 20
SourceChunksShortSlice(sources) ==
    LET n == Len(sources)
        count == (n + SourceChunkSize - 1) \div SourceChunkSize
    IN [k \in 1..count |->
          Some(SubSeq(sources, SourceChunkSize * (k - 1) + 1,
                      Min(SourceChunkSize * k - 1, n)))]

\* [sources[i:i+20] for i in range(0, len(sources), 20)], each chunk as Some(list)
SourceChunks(sources) ==
    LET n == Len(sources)
        count == (n + SourceChunkSize - 1) \div SourceChunkSize
    IN [k \in 1..count |->
          Some(SubSeq(sources, SourceChunkSize * (k - 1) + 1,
                      Min(SourceChunkSize * k, n)))]

\* xs if xs else [None], each element as an Optional
OrPlaceholder(xs) ==
    IF TruthySeq(xs) THEN [i \in 1..Len(Val(xs)) |-> Some(Val(xs)[i])] ELSE <<None>>

\* for a in as: for b in bs: the pairs <<a, b>> in iteration order
Nested2(as, bs) ==
    [k \in 1..(Len(as) * Len(bs)) |->
        <<as[((k - 1) \div Len(bs)) + 1], bs[((k - 1) % Len(bs)) + 1]>>]

\* [F(x) for x in xs] for the request constructors below
EverythingQueries(u, pairs) ==
    [k \in 1..Len(pairs) |-> EverythingQuery(u, pairs[k][1], pairs[k][2])]

HeadlinesQueries(u, pairs) ==
    [k \in 1..Len(pairs) |-> TopHeadlinesQuery(u, pairs[k][1], pairs[k][2], None)]

\* generate_everything_queries with the loops exchanged: source chunk outside
generate_everything_queries_chunk_outer(u) ==
    IF ~TruthySeq(u.q) THEN [raises |-> TRUE, yields |-> <<>>]
    ELSE LET langs == OrPlaceholder(u.languages)
             source_chunks == IF TruthySeq(u.sources) THEN SourceChunks(Val(u.sources))
                              ELSE <<None>>
         IN [raises |-> FALSE,
             yields |-> EverythingQueries(u,
                    [k \in 1..(Len(langs) * Len(source_chunks)) |->
                        <<Nested2(source_chunks, langs)[k][2],
                          Nested2(source_chunks, langs)[k][1]>>])]

\* generate_everything_queries without the test of q
generate_everything_queries_unchecked(u) ==
    LET langs == OrPlaceholder(u.languages)
        source_chunks == IF TruthySeq(u.sources) THEN SourceChunks(Val(u.sources))
                         ELSE <<None>>
    IN [raises |-> FALSE,
        yields |-> EverythingQueries(u, Nested2(langs, source_chunks))]

generate_everything_queries(u) ==
    IF ~TruthySeq(u.q) THEN [raises |-> TRUE, yields |-> <<>>]
    ELSE LET langs == OrPlaceholder(u.languages)
             source_chunks == IF TruthySeq(u.sources) THEN SourceChunks(Val(u.sources))
                              ELSE <<None>>
         IN [raises |-> FALSE,
             yields |-> EverythingQueries(u, Nested2(langs, source_chunks))]

\* The country/category branch skips the combination with no filter at all
HeadlinesSkipped(u, r) == r.country = None /\ r.category = None /\ u.q = None

\* generate_headlines_queries with the loops exchanged: category outside
generate_headlines_queries_category_outer(u) ==
    IF TruthySeq(u.sources)
    THEN LET source_chunks == SourceChunks(Val(u.sources))
         IN [raises |-> FALSE,
             yields |-> [k \in 1..Len(source_chunks) |->
                            TopHeadlinesQuery(u, None, None, source_chunks[k])]]
    ELSE LET countries == OrPlaceholder(u.countries)
             categories == OrPlaceholder(u.categories)
             all == HeadlinesQueries(u,
                        [k \in 1..(Len(countries) * Len(categories)) |->
                            <<Nested2(categories, countries)[k][2],
                              Nested2(categories, countries)[k][1]>>])
         IN [raises |-> FALSE,
             yields |-> SelectSeq(all, LAMBDA r : ~HeadlinesSkipped(u, r))]

\* generate_headlines_queries passing the first country to the sources branch
generate_headlines_queries_sources_with_country(u) ==
    IF TruthySeq(u.sources)
    THEN LET source_chunks == SourceChunks(Val(u.sources))
         IN [raises |-> FALSE,
             yields |-> [k \in 1..Len(source_chunks) |->
                            TopHeadlinesQuery(u, OrPlaceholder(u.countries)[1], None,
                                              source_chunks[k])]]
    ELSE LET countries == OrPlaceholder(u.countries)
             categories == OrPlaceholder(u.categories)
             all == HeadlinesQueries(u, Nested2(countries, categories))
         IN [raises |-> FALSE,
             yields |-> SelectSeq(all, LAMBDA r : ~HeadlinesSkipped(u, r))]

generate_headlines_queries(u) ==
    IF TruthySeq(u.sources)
    THEN LET source_chunks == SourceChunks(Val(u.sources))
         IN [raises |-> FALSE,
             yields |-> [k \in 1..Len(source_chunks) |->
                            TopHeadlinesQuery(u, None, None, source_chunks[k])]]
    ELSE LET countries == OrPlaceholder(u.countries)
             categories == OrPlaceholder(u.categories)
             all == HeadlinesQueries(u, Nested2(countries, categories))
         IN [raises |-> FALSE,
             yields |-> SelectSeq(all, LAMBDA r : ~HeadlinesSkipped(u, r))]

\* generate_sources_queries with language as the outermost loop
generate_sources_queries_language_outer(u) ==
    LET categories == OrPlaceholder(u.categories)
        languages == OrPlaceholder(u.languages)
        countries == OrPlaceholder(u.countries)
        triples == Nested2(languages, Nested2(categories, countries))
    IN [raises |-> FALSE,
        yields |-> [k \in 1..Len(triples) |->
                      SourcesQuery(triples[k][2][1], triples[k][1], triples[k][2][2])]]

generate_sources_queries(u) ==
    LET categories == OrPlaceholder(u.categories)
        languages == OrPlaceholder(u.languages)
        countries == OrPlaceholder(u.countries)
        triples == Nested2(categories, Nested2(languages, countries))
    IN [raises |-> FALSE,
        yields |-> [k \in 1..Len(triples) |->
                      SourcesQuery(triples[k][1], triples[k][2][1], triples[k][2][2])]]

----------------------------------------------------------------------------
(* Inputs *)

\* Largest number of source identifiers given to a UserQuery
MaxSources == 41

\* n distinct source identifiers
SourceIds(n) == [i \in 1..n |-> i]

QInputs == {None, Some(""), Some("climate")}

LanguageInputs == {None, Some(<<"en">>), Some(<<"EN", "de">>), Some(<<"en", "xx", "en">>)}

CountryInputs == {None, Some(<<"us", "gb">>), Some(<<"US", "zz">>)}

CategoryInputs == {None, Some(<<"technology">>), Some(<<"SPORTS", "technology">>)}

PageSizeInputs == {0, 5, 150}

\* The fields the expansion copies unchanged: searchIn, domains, excludeDomains,
\* from_date, to_date, sortBy
SharedInputs ==
    {[searchIn |-> None, domains |-> None, excludeDomains |-> None,
      from_date |-> None, to_date |-> None, sortBy |-> None],
     [searchIn |-> Some(<<"Title", "content">>), domains |-> Some(<<"bbc.co.uk">>),
      excludeDomains |-> Some(<<"cnn.com", "not a domain">>),
      from_date |-> Some([kind |-> "str", s |-> "2024-01-15T10:30:00Z"]),
      to_date |-> Some([kind |-> "datetime",
                        dt |-> [date |-> "2024-02-01", time |-> "00:00:00"]]),
      sortBy |-> Some("popularity")],
     [searchIn |-> Some(<<"title", "description", "CONTENT">>),
      domains |-> Some(<<"not a domain">>), excludeDomains |-> Some(<<>>),
      from_date |-> Some([kind |-> "str", s |-> "yesterday"]),
      to_date |-> None, sortBy |-> Some("Relevancy")],
     [searchIn |-> Some(<<"content", "Title", "description", "title">>),
      domains |-> Some(<<"not a domain">>),
      excludeDomains |-> Some(<<"BBC.co.uk", "bbc.co.uk", "bbc.co.uk">>),
      from_date |-> Some([kind |-> "str", s |-> ""]),
      to_date |-> Some([kind |-> "str", s |-> "2024-01-15"]),
      sortBy |-> Some("publishedAt")],
     [searchIn |-> Some(<<"Title", "body", "title">>), domains |-> None,
      excludeDomains |-> Some(<<"not a domain">>),
      from_date |-> None, to_date |-> Some([kind |-> "str", s |-> "next week"]),
      sortBy |-> Some("popularity")],
     [searchIn |-> Some(<<"body">>), domains |-> Some(<<"cnn.com", "cnn.com">>),
      excludeDomains |-> None, from_date |-> None, to_date |-> None,
      sortBy |-> Some("Relevancy")]}

RawQuery(q, sources, languages, countries, categories, pageSize, max_results, shared) ==
    [q |-> q, searchIn |-> shared.searchIn, sources |-> sources,
     domains |-> shared.domains, excludeDomains |-> shared.excludeDomains,
     from_date |-> shared.from_date, to_date |-> shared.to_date,
     sortBy |-> shared.sortBy, languages |-> languages, countries |-> countries,
     categories |-> categories, pageSize |-> pageSize, max_results |-> max_results]

NoShared == CHOOSE sh \in SharedInputs : sh.searchIn = None

\* Every combination of the multi-valued fields, with few sources
FewSourcesQueries ==
    {RawQuery(q, src, l, c, k, ps, 100, sh) :
        q \in QInputs, src \in {None, Some(<<>>), Some(SourceIds(2))},
        l \in LanguageInputs, c \in CountryInputs, k \in CategoryInputs,
        ps \in PageSizeInputs, sh \in SharedInputs}

\* Every number of sources up to MaxSources
ManySourcesQueries ==
    {RawQuery(Some("climate"), Some(SourceIds(n)), l, c, None, ps, 100, NoShared) :
        n \in 0..MaxSources, l \in {None, Some(<<"EN", "de">>)},
        c \in {None, Some(<<"us", "gb">>)}, ps \in {100, 150}}

\* Lists that name a whole allow-list, or all of it but one entry, in another
\* order, letter case and multiplicity, and with an invalid entry
LanguageListInputs ==
    {Some(allowed_langs_list), Some(<<"xx", "EN">> \o allowed_langs_list),
     Some(Tail(allowed_langs_list)), Some(<<"EN", "de">>)}

CountryListInputs ==
    {Some(<<"ZA", "zz", "us">> \o valid_countries_list), Some(Tail(valid_countries_list)),
     Some(<<"us", "gb">>)}

CategoryListInputs ==
    {Some(<<"technology", "SPORTS", "science", "health", "general", "entertainment",
            "Business", "health">>),
     Some(<<"technology", "SPORTS", "science", "health", "general", "entertainment">>)}

FullListQueries ==
    {RawQuery(Some("climate"), None, l, c, k, 5, 100, sh) :
        l \in LanguageListInputs, c \in CountryListInputs, k \in CategoryListInputs,
        sh \in SharedInputs}

ExpandInputs == FewSourcesQueries \cup ManySourcesQueries \cup FullListQueries

----------------------------------------------------------------------------
(* UserQuery construction and expansion as operations *)

NotBuilt == [ok |-> FALSE]

\* _call_llm raised: the provider call failed or the response had no content
LlmRaises == [raises |-> TRUE, text |-> <<>>]

\* _call_llm returned response.content[0].text
LlmText(tokens) == [raises |-> FALSE, text |-> tokens]

\* The tokens of a response text
FenceJson == [kind |-> "fence_json"]

Fence == [kind |-> "fence"]

Prose == [kind |-> "prose"]

DocToken(value) == [kind |-> "doc", value |-> value]

\* One element of the 'queries' array: a JSON object with these keys, or
\* something that is no object
QueryDict(q, from_date, to_date, languages, pageSize) ==
    [dict |-> TRUE,
     fields |-> [q |-> q, searchIn |-> None, sources |-> None, domains |-> None,
                 excludeDomains |-> None, from_date |-> from_date, to_date |-> to_date,
                 sortBy |-> None, languages |-> languages, countries |-> None,
                 categories |-> None, pageSize |-> pageSize, max_results |-> None]]

NoDict == [dict |-> FALSE]

\* A JSON object with a 'queries' array
QueriesDoc(items) == [type |-> "dict", queries |-> [kind |-> "list", items |-> items]]

\* An optimizer answer with one query that has a from_date
DatedDoc ==
    QueriesDoc(<<QueryDict(Some("climate"), Some([kind |-> "str", s |-> "2024-01-15"]),
                           None, None, None)>>)

\* No LLM call made
NoLlm == [raises |-> FALSE, text |-> <<[kind |-> "none"]>>]

NoOut == [raises |-> FALSE, yields |-> <<>>]

NoResult == [status |-> "none"]

ClientIdle ==
    /\ op = "none" /\ pc = "idle" /\ reqs = <<>> /\ qi = 0 /\ current_page = 0
    /\ query_articles = <<>> /\ all_articles = <<>> /\ result = NoResult
    /\ fetched = <<>> /\ hist = <<>>

\* The session identifiers of the callers
SessionIds == {"s1"}

\* NewsAgent.__init__: self.conversation_history = {}
NoHistory == [s \in SessionIds |-> None]

\* No process_request call has been made
NoReturn == [status |-> "none"]

\* The /query endpoint has not answered yet
NoQueryResponse == [status |-> "none"]

\* No optimize_query call yet
OptimizerIdle == llm = NoLlm /\ user_queries = None

\* No SearchResult yet
NoSearchResult == search_result = None

\* No owner of a NewsAPIClient yet
OwnerIdle == owner = "none" /\ owner_pc = "idle" /\ http_session = "none"

\* The parts of the state an operation of another component leaves alone
OthersIdle ==
    /\ user_input = "" /\ OptimizerIdle /\ NoSearchResult /\ OwnerIdle
    /\ query_response = NoQueryResponse

AgentIdle ==
    /\ session_id = None /\ messages = <<>> /\ aliased = FALSE
    /\ intermediate_responses = <<>> /\ apc = "idle" /\ returned = NoReturn
    /\ oracle_calls = <<>> /\ dispatched = <<>>
    /\ used = 0 /\ entry_history = conversation_history

clientVars == <<op, pc, reqs, qi, current_page, query_articles, all_articles,
                result, world, fetched, hist>>

\* UserQuery(**raw): __post_init__ validates, or raises on a malformed date
NewUserQuery ==
    /\ gen = "raw" /\ apc = "idle"
    /\ uq' = UserQueryInit(raw)
    /\ gen' = IF uq'.ok THEN "built" ELSE "invalid"
    /\ UNCHANGED <<raw, out>>
    /\ UNCHANGED clientVars
    /\ UNCHANGED agentVars
    /\ UNCHANGED otherVars

\* list(uq.generate_everything_queries())
IterEverything ==
    /\ gen = "built"
    /\ gen' = "everything"
    /\ out' = generate_everything_queries(uq)
    /\ UNCHANGED <<raw, uq>>
    /\ UNCHANGED clientVars
    /\ UNCHANGED agentVars
    /\ UNCHANGED otherVars

\* list(uq.generate_headlines_queries())
IterHeadlines ==
    /\ gen = "built"
    /\ gen' = "headlines"
    /\ out' = generate_headlines_queries(uq)
    /\ UNCHANGED <<raw, uq>>
    /\ UNCHANGED clientVars
    /\ UNCHANGED agentVars
    /\ UNCHANGED otherVars

\* list(uq.generate_sources_queries())
IterSources ==
    /\ gen = "built"
    /\ gen' = "sources"
    /\ out' = generate_sources_queries(uq)
    /\ UNCHANGED <<raw, uq>>
    /\ UNCHANGED clientVars
    /\ UNCHANGED agentVars
    /\ UNCHANGED otherVars

InitExpand ==
    /\ raw \in ExpandInputs
    /\ uq = NotBuilt
    /\ gen = "raw"
    /\ out = NoOut
    /\ world = "distinct"
    /\ ClientIdle
    /\ conversation_history = NoHistory
    /\ AgentIdle
    /\ OthersIdle

NextExpand ==
    \/ NewUserQuery
    \/ IterEverything
    \/ IterHeadlines
    \/ IterSources

\* Construction of a UserQuery followed by one expansion
SpecExpand == InitExpand /\ [][NextExpand]_vars

----------------------------------------------------------------------------
(* Properties of the expansion (SpecExpand) *)

Expanded == gen \in {"everything", "headlines", "sources"}

\* The number of elements of an optional list, 1 for the placeholder of None
CountOr1(xs) == IF TruthySeq(xs) THEN Len(Val(xs)) ELSE 1

\* The i-th element of an optional list, None for the placeholder
ElemOrNone(xs, i) == IF TruthySeq(xs) THEN Some(Val(xs)[i]) ELSE None

\* ceil(n / 20) for n >= 1: the c with 20 (c - 1) < n <= 20 c
ChunkCount(n) ==
    CHOOSE c \in 1..n : SourceChunkSize * (c - 1) < n /\ n <= SourceChunkSize * c

\* C1: every request object yielded by generate_everything_queries,
\* generate_headlines_queries and generate_sources_queries has at most 20
\* sources, a page size of at most 100, and at most one language, one country
\* and one category.
C1_RequestsWithinLimits ==
    Expanded =>
        \A i \in 1..Len(out.yields) :
            LET r == out.yields[i]
            IN /\ gen \in {"everything", "headlines"} =>
                    /\ r.sources # None => Len(Val(r.sources)) <= 20
                    /\ r.pageSize <= 100
               /\ gen = "everything" => Len(r.language) <= 1
               /\ gen = "headlines" => Len(r.country) <= 1 /\ Len(r.category) <= 1
               /\ gen = "sources" =>
                    Len(r.language) <= 1 /\ Len(r.country) <= 1 /\ Len(r.category) <= 1

\* C8: for a UserQuery with a query string, generate_everything_queries
\* yields exactly (number of validated languages, or 1 if None) x (number of
\* 20-item source chunks, or 1 without sources) requests, language as the
\* outer loop and source chunk as the inner loop, each carrying the same query
\* string, scope, domains, dates and sort, and page = 1.
C8_EverythingExpansion ==
    (gen = "everything" /\ TruthySeq(uq.q)) =>
        LET nl == CountOr1(uq.languages)
            nc == IF TruthySeq(uq.sources) THEN ChunkCount(Len(Val(uq.sources))) ELSE 1
        IN /\ ~out.raises
           /\ Len(out.yields) = nl * nc
           /\ \A i \in 1..nl : \A j \in 1..nc :
                LET r == out.yields[(i - 1) * nc + j]
                IN /\ r.language = ElemOrNone(uq.languages, i)
                   /\ r.sources =
                        IF TruthySeq(uq.sources)
                        THEN Some(SubSeq(Val(uq.sources), 20 * (j - 1) + 1,
                                         Min(20 * j, Len(Val(uq.sources)))))
                        ELSE None
                   /\ r.q = uq.q
                   /\ r.searchIn = uq.searchIn
                   /\ r.domains = uq.domains
                   /\ r.excludeDomains = uq.excludeDomains
                   /\ r.from_date = uq.from_date
                   /\ r.to_date = uq.to_date
                   /\ r.sortBy = uq.sortBy
                   /\ r.page = 1

\* C8 witness: two languages and at least two source chunks were expanded
C8_Witness ==
    /\ gen = "everything"
    /\ uq.languages = Some(<<"en", "de">>)
    /\ TruthySeq(uq.sources) /\ Len(Val(uq.sources)) > 20
    /\ Len(out.yields) >= 4

\* The source lists of requests first..last of the expansion, in order
ChunksOf(first, last) == [k \in 1..(last - first + 1) |-> Val(out.yields[first + k - 1].sources)]

\* chunks is a partition of sources into ceil(n/20) runs of 20 (the last may be shorter)
IsPartition(chunks, sources) ==
    /\ Len(chunks) = ChunkCount(Len(sources))
    /\ \A k \in 1..(Len(chunks) - 1) : Len(chunks[k]) = 20
    /\ Len(chunks[Len(chunks)]) >= 1
    /\ Flatten(chunks) = sources
    /\ Len(sources) = 21 => Len(chunks) = 2 /\ Len(chunks[1]) = 20 /\ Len(chunks[2]) = 1

\* C9: source chunking is a partition: a source list of n >= 1 identifiers
\* gives ceil(n/20) chunks, every chunk but the last has exactly 20 sources,
\* and the chunks concatenated in order are the original list (21 sources give
\* 2 requests with 20 and 1 sources); for the headlines expansion and for each
\* language of the search expansion.
C9_ChunkingIsPartition ==
    (Expanded /\ TruthySeq(uq.sources)) =>
        LET sources == Val(uq.sources)
            nc == ChunkCount(Len(sources))
        IN /\ gen = "headlines" =>
                /\ Len(out.yields) = nc
                /\ IsPartition(ChunksOf(1, Len(out.yields)), sources)
           /\ (gen = "everything" /\ ~out.raises) =>
                /\ Len(out.yields) = CountOr1(uq.languages) * nc
                /\ \A i \in 1..CountOr1(uq.languages) :
                     IsPartition(ChunksOf((i - 1) * nc + 1, i * nc), sources)

\* C9 witness: 21 sources were expanded into two headlines requests
C9_Witness ==
    /\ gen = "headlines"
    /\ TruthySeq(uq.sources) /\ Len(Val(uq.sources)) = 21
    /\ Len(out.yields) = 2

\* Without sources: one headlines request per (country, category) pair,
\* country as the outer loop
HeadlinesIsProduct ==
    LET nco == CountOr1(uq.countries)
        nca == CountOr1(uq.categories)
    IN /\ Len(out.yields) = nco * nca
       /\ \A i \in 1..nco : \A j \in 1..nca :
            LET r == out.yields[(i - 1) * nca + j]
            IN /\ r.country = ElemOrNone(uq.countries, i)
               /\ r.category = ElemOrNone(uq.categories, j)
               /\ r.sources = None

\* countries [us, gb] with categories [technology] give (us, technology), (gb, technology)
HeadlinesExample ==
    (uq.countries = Some(<<"us", "gb">>) /\ uq.categories = Some(<<"technology">>)) =>
        /\ Len(out.yields) = 2
        /\ out.yields[1].country = Some("us") /\ out.yields[1].category = Some("technology")
        /\ out.yields[2].country = Some("gb") /\ out.yields[2].category = Some("technology")

\* C10 as stated: for a UserQuery without sources, generate_headlines_queries
\* yields one request per (country, category) pair of the cartesian product of
\* the validated countries (or one absent placeholder) and the validated
\* categories (or one absent placeholder), country outer and category inner.
C10_Original ==
    (gen = "headlines" /\ ~TruthySeq(uq.sources)) =>
        HeadlinesIsProduct /\ HeadlinesExample

\* C10 amended: as stated, except that a UserQuery with no country, no
\* category and q = None yields no request at all (its only pair is skipped).
C10_HeadlinesProduct ==
    (gen = "headlines" /\ ~TruthySeq(uq.sources)) =>
        IF uq.countries = None /\ uq.categories = None /\ uq.q = None
        THEN out.yields = <<>>
        ELSE HeadlinesIsProduct /\ HeadlinesExample

\* C10 witness: countries [us, gb] and categories [technology] were expanded
C10_Witness ==
    /\ gen = "headlines" /\ ~TruthySeq(uq.sources)
    /\ uq.countries = Some(<<"us", "gb">>) /\ uq.categories = Some(<<"technology">>)
    /\ Len(out.yields) = 2

\* C11: when a UserQuery has sources, generate_headlines_queries yields
\* exactly one request per chunk of at most 20 sources and none of them
\* carries a country or a category, even when the UserQuery has countries or
\* categories; no headlines request, as an object or as API parameters,
\* combines sources with country or category.
C11_SourcesExcludeCountryCategory ==
    gen = "headlines" =>
        /\ TruthySeq(uq.sources) =>
             /\ Len(out.yields) = ChunkCount(Len(Val(uq.sources)))
             /\ \A k \in 1..Len(out.yields) :
                  LET r == out.yields[k]
                  IN /\ r.sources = SourceChunks(Val(uq.sources))[k]
                     /\ Len(Val(r.sources)) \in 1..20
                     /\ r.country = None /\ r.category = None
                     /\ HeadlinesParams(r).sources = r.sources
        /\ \A k \in 1..Len(out.yields) :
             LET r == out.yields[k]
                 p == HeadlinesParams(r)
             IN /\ TruthySeq(r.sources) => r.country = None /\ r.category = None
                /\ p.sources # None => p.country = None /\ p.category = None

\* C11 witness: a UserQuery with sources, countries and categories was
\* expanded into headlines requests
C11_Witness ==
    /\ gen = "headlines"
    /\ TruthySeq(uq.sources) /\ TruthySeq(uq.countries) /\ TruthySeq(uq.categories)
    /\ Len(out.yields) >= 1
    /\ out.yields[1].country = None

\* C12: every headlines request yielded by generate_headlines_queries carries
\* at least one filter: the API parameters of every emitted request contain at
\* least one of q, country, category or sources.
C12_EveryHeadlinesRequestFiltered ==
    gen = "headlines" =>
        \A k \in 1..Len(out.yields) :
            LET p == HeadlinesParams(out.yields[k])
            IN p.q # None \/ p.country # None \/ p.category # None \/ p.sources # None

\* The (category, language, country) triple of position k of the product
SourcesTriple(k) ==
    LET nl == CountOr1(uq.languages)
        nco == CountOr1(uq.countries)
    IN [category |-> ElemOrNone(uq.categories, ((k - 1) \div (nl * nco)) + 1),
        language |-> ElemOrNone(uq.languages, (((k - 1) \div nco) % nl) + 1),
        country |-> ElemOrNone(uq.countries, ((k - 1) % nco) + 1)]

\* C13: generate_sources_queries yields one request per element of the
\* cartesian product category x language x country (each an absent
\* placeholder when unset), category outermost and country innermost; with
\* all three unset it yields exactly one unfiltered request.
C13_SourcesProduct ==
    gen = "sources" =>
        /\ ~out.raises
        /\ Len(out.yields) =
             CountOr1(uq.categories) * CountOr1(uq.languages) * CountOr1(uq.countries)
        /\ \A k \in 1..Len(out.yields) : out.yields[k] = SourcesTriple(k)
        /\ (uq.categories = None /\ uq.languages = None /\ uq.countries = None) =>
             /\ Len(out.yields) = 1
             /\ SourcesParams(out.yields[1]) =
                    [category |-> None, language |-> None, country |-> None]

\* C13 witness: two categories, two languages and two countries were expanded
\* into eight sources requests, the second differing from the first in its
\* country only
C13_Witness ==
    /\ gen = "sources"
    /\ uq.categories = Some(<<"sports", "technology">>)
    /\ uq.languages = Some(<<"en", "de">>)
    /\ uq.countries = Some(<<"us", "gb">>)
    /\ Len(out.yields) = 8
    /\ out.yields[2] = [category |-> Some("sports"), language |-> Some("en"),
                        country |-> Some("gb")]

\* A UserQuery was constructed from raw
Built == gen # "raw" /\ uq.ok

NoDuplicates(xs) == \A i, j \in 1..Len(xs) : xs[i] = xs[j] => i = j

\* None, or a non-empty list of entries of allowed without duplicates
NoneOrCleanList(o, allowed) ==
    o = None \/ (Len(Val(o)) > 0 /\ Range(Val(o)) \subseteq allowed /\ NoDuplicates(Val(o)))

\* C15: after construction of a UserQuery, each multi-valued field (searchIn,
\* domains, excludeDomains, languages, countries, categories) is either None
\* or a non-empty list containing only allow-listed (or well-formed) entries
\* and no duplicate entries.
C15_FieldsNoneOrCleanList ==
    Built =>
        /\ NoneOrCleanList(uq.searchIn, valid_fields)
        /\ NoneOrCleanList(uq.domains, WellFormedDomains)
        /\ NoneOrCleanList(uq.excludeDomains, WellFormedDomains)
        /\ NoneOrCleanList(uq.languages, allowed_langs)
        /\ NoneOrCleanList(uq.countries, valid_countries)
        /\ NoneOrCleanList(uq.categories, valid_categories)

\* The entries of xs that are in allowed after lower-casing, lower-cased, in order
Kept(xs, allowed) ==
    LET lowered == [i \in 1..Len(xs) |-> Lower(xs[i])]
    IN SelectSeq(lowered, LAMBDA x : x \in allowed)

\* The surviving entries of an optional list, as a set
Survivors(o, allowed) == IF TruthySeq(o) THEN Range(Kept(Val(o), allowed)) ELSE {}

\* C16: for each allow-list field (searchIn, languages, countries,
\* categories), if the set of entries that survive validation equals the
\* complete allow-list, in any order, letter case or multiplicity, the field
\* becomes None; all 14 supported language codes give languages = None.
C16_FullAllowListCollapses ==
    Built =>
        /\ Survivors(raw.searchIn, valid_fields) = valid_fields => uq.searchIn = None
        /\ Survivors(raw.languages, allowed_langs) = allowed_langs => uq.languages = None
        /\ Survivors(raw.countries, valid_countries) = valid_countries => uq.countries = None
        /\ Survivors(raw.categories, valid_categories) = valid_categories =>
                uq.categories = None
        /\ Cardinality(allowed_langs) = 14
        /\ raw.languages = Some(allowed_langs_list) => uq.languages = None
        /\ (TruthySeq(raw.languages)
                /\ Survivors(raw.languages, allowed_langs) \notin {{}, allowed_langs}) =>
             uq.languages # None

\* C16 witness: a UserQuery was constructed from the 14 language codes given
\* with an invalid code, an upper-case code and a repeated code, and from all
\* seven categories in another order
C16_Witness ==
    /\ Built
    /\ raw.languages = Some(<<"xx", "EN">> \o allowed_langs_list)
    /\ Len(Val(raw.categories)) = 8
    /\ uq.languages = None /\ uq.categories = None

\* What __post_init__ leaves in an allow-list field
ExpectedList(o, allowed) ==
    IF ~TruthySeq(o) \/ Survivors(o, allowed) \in {{}, allowed} THEN None
    ELSE Some(Kept(Val(o), allowed))

\* The well-formed entries of a domain list, as given
KeptDomains(o) == SelectSeq(Val(o), LAMBDA d : d \in WellFormedDomains)

\* The sort key equals an allowed value up to letter case
SortKeyMatchesIgnoringCase(o) ==
    TruthySeq(o) /\ \E a \in allowed_sortBy : Lower(a) = Lower(Val(o))

\* The allow-list fields match case-insensitively, drop what fails and become
\* None when nothing survives
ListsMatchIgnoringCase ==
    /\ uq.searchIn = ExpectedList(raw.searchIn, valid_fields)
    /\ uq.languages = ExpectedList(raw.languages, allowed_langs)
    /\ uq.countries = ExpectedList(raw.countries, valid_countries)
    /\ uq.categories = ExpectedList(raw.categories, valid_categories)
    /\ raw.languages = Some(<<"EN", "de">>) => uq.languages = Some(<<"en", "de">>)

MalformedDate(d) == d # None /\ Val(d).kind = "str" /\ Val(d).s \notin DOMAIN IsoDates

\* An accepted date argument gives the datetime it denotes
DateAccepted(given, field) ==
    /\ given = None => field = None
    /\ (given # None /\ Val(given).kind = "datetime") => field = Some(Val(given).dt)
    /\ (given # None /\ Val(given).kind = "str" /\ Val(given).s \in DOMAIN IsoDates) =>
            field = Some(IsoDates[Val(given).s])

\* C18 as stated: constructing a UserQuery with a malformed from_date or
\* to_date string fails with an error (no UserQuery is produced), while an
\* ISO-8601 string or a native datetime is accepted; every other invalid field
\* value is dropped or clamped without failing construction.
C18_Original ==
    gen # "raw" =>
        /\ uq.ok <=> ~(MalformedDate(raw.from_date) \/ MalformedDate(raw.to_date))
        /\ uq.ok => DateAccepted(raw.from_date, uq.from_date)
                    /\ DateAccepted(raw.to_date, uq.to_date)

\* C18 amended: construction fails exactly when from_date or to_date is a
\* non-empty string that is not ISO-8601; an ISO-8601 string or a native
\* datetime is accepted and an empty date string is accepted and left as it
\* is (it is sent as no date); no other field value fails construction.
C18_MalformedDateFails ==
    gen # "raw" =>
        /\ uq.ok <=> ~(\E d \in {raw.from_date, raw.to_date} :
                            MalformedDate(d) /\ Val(d).s # "")
        /\ gen = "invalid" <=> ~uq.ok
        /\ uq.ok =>
             /\ DateAccepted(raw.from_date, uq.from_date)
             /\ DateAccepted(raw.to_date, uq.to_date)
             /\ raw.from_date = Some([kind |-> "str", s |-> ""]) =>
                    uq.from_date = raw.from_date /\ ~TruthyDate(uq.from_date)

\* C18 witness: the construction from from_date = "yesterday" failed
C18_Witness ==
    /\ gen = "invalid" /\ ~uq.ok
    /\ raw.from_date = Some([kind |-> "str", s |-> "yesterday"])
    /\ raw.sortBy = Some("Relevancy")

----------------------------------------------------------------------------
(* The client, news_client.py: search_everything (40-136),
   search_top_headlines (138-233), get_sources (235-297).  One action per HTTP
   round trip: the request built from the current state, the provider's
   answer, and the code that runs up to the next request or the return. *)

\* Largest page number requested for one expanded request
MaxPages == 3

\* Largest number of sources in one /sources response
MaxSourcesPerResponse == 2

\* totalResults values of the provider (0 also stands for a missing field)
Totals == {0, 3, 1000}

\* Largest number of records the provider has for one page
MaxPageRecords == 2

\* Number of records in an ok page: at most as many as were requested
PageCounts(requested) == {n \in 0..MaxPageRecords : n <= requested}

\* The URL (articles) or id (sources) of the record with serial number ser;
\* 0 stands for a missing or empty key
KeyOf(ser) == IF world = "distinct" THEN ser ELSE ser % 3

\* The n articles of an ok page: serial numbers continue over the operation
PageArticles(n) ==
    [i \in 1..n |-> [url |-> KeyOf(Len(fetched) + i), ser |-> Len(fetched) + i,
                     qi |-> qi, page |-> current_page]]

\* The n sources of an ok /sources response
ResponseSources(n) ==
    [i \in 1..n |-> [id |-> KeyOf(Len(fetched) + i), ser |-> Len(fetched) + i,
                     qi |-> qi]]

\* The positions of a record list paired with their records
Indexed(all) == [i \in 1..Len(all) |-> <<i, all[i]>>]

\* UniqueArticles without the "if url" test: a record without URL is kept
\* wherever it stands
UniqueArticlesKeepingNoUrl(all) ==
    SelectSeq(Indexed(all),
              LAMBDA p : \/ p[2].url = 0
                         \/ \A j \in 1..(p[1] - 1) : all[j].url # p[2].url)

\* news_client.py:113-119: unique_articles after the loop, as the (position,
\* record) pairs that were inserted, in insertion order: a record is inserted
\* when its URL is truthy and no earlier record has the same URL
UniqueArticles(all) ==
    SelectSeq(Indexed(all),
              LAMBDA p : /\ p[2].url # 0
                         /\ \A j \in 1..(p[1] - 1) : all[j].url # p[2].url)

\* The last position of all that holds the URL of position i
LastWithUrl(all, i) ==
    CHOOSE k \in i..Len(all) :
        /\ all[k].url = all[i].url
        /\ \A j \in (k + 1)..Len(all) : all[j].url # all[i].url

\* The dedup without the "url not in unique_articles" test: every record
\* overwrites the dict entry of its URL in place, so the last record wins
DedupArticlesLastWins(all) ==
    [k \in 1..Len(UniqueArticles(all)) |-> all[LastWithUrl(all, UniqueArticles(all)[k][1])]]

\* final_articles = list(unique_articles.values())
DedupArticles(all) ==
    [k \in 1..Len(UniqueArticles(all)) |-> UniqueArticles(all)[k][2]]

\* UniqueSources without the "if source_id" test: a record without id is kept
UniqueSourcesKeepingNoId(all) ==
    SelectSeq(Indexed(all),
              LAMBDA p : \/ p[2].id = 0
                         \/ \A j \in 1..(p[1] - 1) : all[j].id # p[2].id)

\* news_client.py:280-286
UniqueSources(all) ==
    SelectSeq(Indexed(all),
              LAMBDA p : /\ p[2].id # 0
                         /\ \A j \in 1..(p[1] - 1) : all[j].id # p[2].id)

\* final_sources = list(unique_sources.values())
DedupSources(all) ==
    [k \in 1..Len(UniqueSources(all)) |-> UniqueSources(all)[k][2]]

\* Python's final_articles[:m]
SliceTo(final, m) ==
    IF m >= 0 THEN SubSeq(final, 1, Min(m, Len(final)))
    ELSE SubSeq(final, 1, Max(Len(final) + m, 0))

\* A truncation that never cuts
TruncateNever(final, m) == final

\* news_client.py:122-123
Truncate(final, m) == IF Len(final) > m THEN SliceTo(final, m) ELSE final

\* news_client.py:112-132: the return value of a search that was not interrupted
OkResult(all) ==
    LET final_articles == Truncate(DedupArticles(all), uq.max_results)
    IN [status |-> "ok", totalResults |-> Len(final_articles), articles |-> final_articles]

\* A handler that lets the exception out instead
ErrorResultPropagates == [status |-> "raised"]

\* news_client.py:134-136, 231-233: the except RequestException handler
ErrorResult == [status |-> "error", totalResults |-> 0, articles |-> <<>>]

\* news_client.py:290-293
OkSourcesResult(all) == [status |-> "ok", sources |-> DedupSources(all)]

\* news_client.py:295-297
ErrorSourcesResult == [status |-> "error", sources |-> <<>>]

\* An exception that is not a RequestException leaves the operation
Raised == [status |-> "raised"]

\* The request being paginated, with api_query.page = current_page
\* ApiQuery without the page number update
ApiQueryStalePage == reqs[qi]

ApiQuery == [reqs[qi] EXCEPT !.page = current_page]

\* params = api_query.to_api_params()
Params == IF op = "everything" THEN EverythingParams(ApiQuery) ELSE HeadlinesParams(ApiQuery)

\* One HTTP round trip of a search as recorded in hist
RoundTrip(outcome, n, total, acc) ==
    [qi |-> qi, page |-> Params.page, pageSize |-> Params.pageSize,
     outcome |-> outcome, n |-> n, total |-> total, acc |-> acc,
     allBefore |-> Len(all_articles), fetchedBefore |-> Len(fetched)]

\* search_everything(user_query) up to the first HTTP request
StartSearchEverything ==
    /\ gen = "built" /\ pc = "idle"
    /\ op' = "everything"
    /\ LET g == generate_everything_queries(uq)
       IN IF g.raises
          THEN /\ pc' = "done" /\ result' = Raised
               /\ UNCHANGED <<reqs, qi, current_page>>
          ELSE /\ pc' = "page" /\ reqs' = g.yields /\ qi' = 1 /\ current_page' = 1
               /\ UNCHANGED result
    /\ UNCHANGED <<raw, uq, gen, out, query_articles, all_articles, world, fetched, hist>>
    /\ UNCHANGED agentVars
    /\ UNCHANGED otherVars

\* search_top_headlines(user_query) up to the first HTTP request, or to the
\* return when the expansion is empty
StartSearchTopHeadlines ==
    /\ gen = "built" /\ pc = "idle"
    /\ op' = "headlines"
    /\ LET g == generate_headlines_queries(uq)
       IN IF g.yields = <<>>
          THEN /\ pc' = "done" /\ result' = OkResult(<<>>)
               /\ UNCHANGED <<reqs, qi, current_page>>
          ELSE /\ pc' = "page" /\ reqs' = g.yields /\ qi' = 1 /\ current_page' = 1
               /\ UNCHANGED result
    /\ UNCHANGED <<raw, uq, gen, out, query_articles, all_articles, world, fetched, hist>>
    /\ UNCHANGED agentVars
    /\ UNCHANGED otherVars

\* get_sources(user_query) up to the first HTTP request
StartGetSources ==
    /\ gen = "built" /\ pc = "idle"
    /\ op' = "sources"
    /\ pc' = "sources" /\ reqs' = generate_sources_queries(uq).yields
    /\ qi' = 1 /\ current_page' = 0
    /\ UNCHANGED <<raw, uq, gen, out, query_articles, all_articles, result, world,
                   fetched, hist>>
    /\ UNCHANGED agentVars
    /\ UNCHANGED otherVars

\* news_client.py:101-132: the inner loop was left with query_articles = qa;
\* go on to the next expanded request, or finish
EndQuery(qa) ==
    LET all == all_articles \o qa
    IN /\ all_articles' = all
       /\ IF Len(all) >= uq.max_results \/ qi = Len(reqs)
          THEN /\ pc' = "done" /\ result' = OkResult(all)
               /\ query_articles' = qa
               /\ UNCHANGED <<qi, current_page>>
          ELSE /\ qi' = qi + 1 /\ current_page' = 1 /\ query_articles' = <<>>
               /\ UNCHANGED <<pc, result>>

\* A page request fails in session.get or raise_for_status: the operation's
\* except handler returns
PageTransportError ==
    /\ pc = "page" /\ current_page <= MaxPages
    /\ hist' = Append(hist, RoundTrip("transport", 0, 0, Len(query_articles)))
    /\ reqs' = [reqs EXCEPT ![qi] = ApiQuery]
    /\ pc' = "done" /\ result' = ErrorResult
    /\ UNCHANGED <<raw, uq, gen, out, op, qi, current_page, query_articles,
                   all_articles, world, fetched>>
    /\ UNCHANGED agentVars
    /\ UNCHANGED otherVars

\* PageNotOk treating the provider error like a transport error
PageNotOkAborts ==
    /\ pc = "page" /\ current_page <= MaxPages
    /\ hist' = Append(hist, RoundTrip("notok", 0, 0, Len(query_articles)))
    /\ reqs' = [reqs EXCEPT ![qi] = ApiQuery]
    /\ pc' = "done" /\ result' = ErrorResult
    /\ UNCHANGED <<raw, uq, gen, out, op, qi, current_page, query_articles,
                   all_articles, world, fetched>>
    /\ UNCHANGED agentVars
    /\ UNCHANGED otherVars

\* PageNotOk abandoning the request whatever the page: earlier pages are dropped
PageNotOkDropsPages ==
    /\ pc = "page" /\ current_page <= MaxPages
    /\ hist' = Append(hist, RoundTrip("notok", 0, 0, Len(query_articles)))
    /\ reqs' = [reqs EXCEPT ![qi] = ApiQuery]
    /\ EndQuery(<<>>)
    /\ UNCHANGED <<raw, uq, gen, out, op, world, fetched>>
    /\ UNCHANGED agentVars
    /\ UNCHANGED otherVars

\* A page is answered with a status other than "ok": break
PageNotOk ==
    /\ pc = "page" /\ current_page <= MaxPages
    /\ hist' = Append(hist, RoundTrip("notok", 0, 0, Len(query_articles)))
    /\ reqs' = [reqs EXCEPT ![qi] = ApiQuery]
    /\ EndQuery(query_articles)
    /\ UNCHANGED <<raw, uq, gen, out, op, world, fetched>>
    /\ UNCHANGED agentVars
    /\ UNCHANGED otherVars

\* A page is answered with status "ok", n articles and a totalResults
PageOk ==
    /\ pc = "page" /\ current_page <= MaxPages
    /\ \E n \in PageCounts(Params.pageSize), query_total \in Totals :
        LET page_articles == PageArticles(n)
            qa == query_articles \o page_articles
        IN /\ hist' = Append(hist, RoundTrip("ok", n, query_total, Len(qa)))
           /\ fetched' = fetched \o page_articles
           /\ reqs' = [reqs EXCEPT ![qi] = ApiQuery]
           /\ IF \/ Len(page_articles) < ApiQuery.pageSize
                 \/ Len(qa) >= query_total
                 \/ Len(all_articles) + Len(qa) >= uq.max_results
              THEN EndQuery(qa)
              ELSE /\ current_page' = current_page + 1
                   /\ query_articles' = qa
                   /\ UNCHANGED <<qi, all_articles, pc, result>>
    /\ UNCHANGED <<raw, uq, gen, out, op, world>>
    /\ UNCHANGED agentVars
    /\ UNCHANGED otherVars

\* One /sources round trip as recorded in hist
SourcesRoundTrip(outcome, n) ==
    [qi |-> qi, page |-> 0, pageSize |-> 0, outcome |-> outcome, n |-> n,
     total |-> 0, acc |-> 0, allBefore |-> Len(all_articles),
     fetchedBefore |-> Len(fetched)]

\* news_client.py:251-293: go on to the next sources request, or finish
EndSourcesQuery(all) ==
    /\ all_articles' = all
    /\ IF qi = Len(reqs)
       THEN /\ pc' = "done" /\ result' = OkSourcesResult(all) /\ UNCHANGED qi
       ELSE /\ qi' = qi + 1 /\ UNCHANGED <<pc, result>>

\* A /sources request fails in session.get or raise_for_status
SourcesTransportError ==
    /\ pc = "sources"
    /\ hist' = Append(hist, SourcesRoundTrip("transport", 0))
    /\ pc' = "done" /\ result' = ErrorSourcesResult
    /\ UNCHANGED <<raw, uq, gen, out, op, reqs, qi, current_page, query_articles,
                   all_articles, world, fetched>>
    /\ UNCHANGED agentVars
    /\ UNCHANGED otherVars

\* A /sources request is answered with a status other than "ok": continue
SourcesNotOk ==
    /\ pc = "sources"
    /\ hist' = Append(hist, SourcesRoundTrip("notok", 0))
    /\ EndSourcesQuery(all_articles)
    /\ UNCHANGED <<raw, uq, gen, out, op, reqs, current_page, query_articles,
                   world, fetched>>
    /\ UNCHANGED agentVars
    /\ UNCHANGED otherVars

\* A /sources request is answered with status "ok" and n sources
SourcesOk ==
    /\ pc = "sources"
    /\ \E n \in 0..MaxSourcesPerResponse :
        /\ hist' = Append(hist, SourcesRoundTrip("ok", n))
        /\ fetched' = fetched \o ResponseSources(n)
        /\ EndSourcesQuery(all_articles \o ResponseSources(n))
    /\ UNCHANGED <<raw, uq, gen, out, op, reqs, current_page, query_articles, world>>
    /\ UNCHANGED agentVars
    /\ UNCHANGED otherVars

\* The UserQuery inputs of the client operations
ClientInputs ==
    {RawQuery(Some("climate"), None, lc[1], lc[2], None, 2, m, NoShared) :
        lc \in {<<None, None>>, <<Some(<<"en", "de">>), Some(<<"us", "gb">>)>>},
        m \in {-1, 0, 3, 100}}
    \cup
    {RawQuery(Some("climate"), None, lc[1], lc[2], None, ps, 3, NoShared) :
        lc \in {<<None, None>>, <<Some(<<"en", "de">>), Some(<<"us", "gb">>)>>},
        ps \in {0, 150}}
    \cup
    {RawQuery(None, None, None, c, None, 2, 3, NoShared) :
        c \in {None, Some(<<"us", "gb">>)}}

Init ==
    /\ raw \in ClientInputs
    /\ uq = NotBuilt
    /\ gen = "raw"
    /\ out = NoOut
    /\ world \in {"distinct", "cyclic"}
    /\ ClientIdle
    /\ conversation_history = NoHistory
    /\ AgentIdle
    /\ OthersIdle

Next ==
    \/ NewUserQuery
    \/ StartSearchEverything
    \/ StartSearchTopHeadlines
    \/ StartGetSources
    \/ PageTransportError
    \/ PageNotOk
    \/ PageOk
    \/ SourcesTransportError
    \/ SourcesNotOk
    \/ SourcesOk

\* Construction of a UserQuery followed by one client operation
Spec == Init /\ [][Next]_vars

----------------------------------------------------------------------------
(* Properties of the client (Spec) *)

Searching == op \in {"everything", "headlines"}

\* The operation returned a result (it did not raise)
Returned == pc = "done" /\ result.status \in {"ok", "error"}

\* Some round trip ended in a transport failure
TransportFailed == \E k \in 1..Len(hist) : hist[k].outcome = "transport"

\* C2 as stated: for every max_results value and every sequence of provider
\* responses, the article list returned by search_everything and by
\* search_top_headlines has length <= user_query.max_results.
C2_Original ==
    (Searching /\ Returned) => Len(result.articles) <= uq.max_results

\* C2 amended: for every max_results >= 0 and every sequence of provider
\* responses, the returned article list has length <= max_results.
C2_LengthWithinCap ==
    (Searching /\ Returned /\ uq.max_results >= 0) =>
        Len(result.articles) <= uq.max_results

\* C2 witness: more distinct URLs were fetched than max_results >= 1 allows,
\* and the returned list was cut to max_results
C2_Witness ==
    /\ Searching /\ pc = "done" /\ result.status = "ok"
    /\ uq.max_results >= 1
    /\ Cardinality({fetched[i].url : i \in 1..Len(fetched)} \ {0}) > uq.max_results
    /\ Len(result.articles) = uq.max_results

\* C3: the article list returned by search_everything / search_top_headlines
\* holds no two records with the same URL; for each URL it holds the first
\* record fetched with that URL (fetch order is expanded-request order, then
\* page order), and the records appear in first-seen order; every fetched URL
\* is held unless the list was cut at max_results.
C3_FirstSeenWins ==
    (Searching /\ Returned) =>
        LET a == result.articles
        IN /\ \A i, j \in 1..Len(a) : i < j => a[i].url # a[j].url /\ a[i].ser < a[j].ser
           /\ \A i \in 1..Len(a) :
                /\ a[i].ser \in 1..Len(fetched)
                /\ fetched[a[i].ser] = a[i]
                /\ \A k \in 1..(a[i].ser - 1) : fetched[k].url # a[i].url
           /\ result.status = "ok" =>
                \A k \in 1..Len(fetched) :
                    fetched[k].url # 0 =>
                        \/ \E i \in 1..Len(a) : a[i].url = fetched[k].url
                        \/ Len(a) >= uq.max_results
           /\ \A k, l \in 1..Len(fetched) :
                k < l => \/ fetched[k].qi < fetched[l].qi
                         \/ /\ fetched[k].qi = fetched[l].qi
                            /\ fetched[k].page <= fetched[l].page

\* C3 witness: a URL was fetched twice, by two different requests, and the
\* returned list holds it
C3_Witness ==
    /\ Searching /\ pc = "done" /\ result.status = "ok"
    /\ \E k, l \in 1..Len(fetched) :
        /\ k < l /\ fetched[k].url = fetched[l].url /\ fetched[k].url # 0
        /\ fetched[k].qi < fetched[l].qi
        /\ \E i \in 1..Len(result.articles) : result.articles[i].url = fetched[k].url

\* C4: while paginating one expanded request, the next page is requested only
\* if the last page returned exactly as many records as the page size that was
\* requested from the provider, the records accumulated for this request are
\* fewer than the provider-reported total, and the records accumulated across
\* all requests are fewer than max_results; in particular a first page with
\* fewer records than the requested page size ends pagination after one page.
C4_NextPageOnlyIf ==
    Searching =>
        \A k \in 1..(Len(hist) - 1) :
            hist[k + 1].qi = hist[k].qi =>
                /\ hist[k + 1].page = hist[k].page + 1
                /\ hist[k].outcome = "ok"
                /\ hist[k].n = hist[k].pageSize
                /\ hist[k].acc < hist[k].total
                /\ hist[k].allBefore + hist[k].acc < uq.max_results

\* C5: a transport failure on any page of any expanded request never
\* propagates out of search_everything, search_top_headlines or get_sources:
\* the operation returns at once, with status "error" and an empty record list.
C5_TransportErrorResult ==
    TransportFailed =>
        /\ pc = "done"
        /\ result.status = "error"
        /\ IF op = "sources" THEN result.sources = <<>> ELSE result.articles = <<>>
        /\ hist[Len(hist)].outcome = "transport"

\* C5 witness: the transport failure hit the second expanded request of a
\* search, after records of the first had been accumulated
C5_Witness ==
    /\ Searching /\ pc = "done" /\ TransportFailed
    /\ hist[Len(hist)].qi = 2 /\ all_articles # <<>>
    /\ result.status = "error"

\* The records fetched before round trip k, as far as they carry a URL, are
\* represented in the returned list, or the returned list is full
KeptUpTo(k) ==
    \A i \in 1..hist[k].fetchedBefore :
        fetched[i].url # 0 =>
            \/ \E j \in 1..Len(result.articles) : result.articles[j].url = fetched[i].url
            \/ Len(result.articles) >= uq.max_results

\* C6 as stated: when a provider error or a transport error occurs while
\* fetching one expanded request, the failure is confined to that request: the
\* operation continues, and its result still contains the articles accumulated
\* from the requests and pages fetched before the failure.
C6_Original ==
    (Searching /\ pc = "done") =>
        \A k \in 1..Len(hist) :
            hist[k].outcome \in {"notok", "transport"} =>
                result.status = "ok" /\ KeptUpTo(k)

\* C6 amended: a provider error (non-ok status) is confined to its request: if
\* no transport error occurs the operation returns status "ok" and its result
\* still contains (up to URL dedup and the max_results cap) the articles
\* accumulated before the failure; a transport error is not confined: it ends
\* the operation with status "error" and an empty list.
C6_ProviderErrorConfined ==
    (Searching /\ pc = "done") =>
        \A k \in 1..Len(hist) :
            /\ (hist[k].outcome = "notok" /\ ~TransportFailed) =>
                    result.status = "ok" /\ KeptUpTo(k)
            /\ hist[k].outcome = "transport" =>
                    result.status = "error" /\ result.articles = <<>> /\ k = Len(hist)

\* C6 witness: a provider error after records were accumulated, and a result
\* with status "ok" that holds records
C6_Witness ==
    /\ Searching /\ pc = "done" /\ result.status = "ok"
    /\ \E k \in 1..Len(hist) :
        /\ hist[k].outcome = "notok" /\ hist[k].fetchedBefore > 0
        /\ k < Len(hist)
    /\ result.articles # <<>>

\* Pagination of a request stops at a non-ok page; a non-ok page 1 leaves the
\* request without records, a later one keeps the records of its earlier pages
NotOkStopsAndKeeps(k) ==
    /\ k < Len(hist) => hist[k + 1].qi = hist[k].qi + 1 /\ hist[k + 1].page = 1
    /\ hist[k].page = 1 => \A i \in 1..Len(fetched) : fetched[i].qi # hist[k].qi
    /\ \A i \in 1..Len(fetched) :
            fetched[i].qi = hist[k].qi =>
                \E j \in 1..Len(all_articles) : all_articles[j] = fetched[i]

\* C7 as stated: when the provider answers a page with a non-"ok" status,
\* pagination of that request stops: page 1 contributes no records, a later
\* page keeps the records of the earlier pages; in both cases the operation
\* goes on to the next expanded request and finally returns status "ok".
C7_Original ==
    Searching =>
        \A k \in 1..Len(hist) :
            hist[k].outcome = "notok" =>
                /\ NotOkStopsAndKeeps(k)
                /\ pc = "done" =>
                    /\ hist[k].qi < Len(reqs) => k < Len(hist)
                    /\ result.status = "ok"

\* C7 amended: as stated, except that the operation goes on to the next
\* expanded request only if max_results > 0 (with max_results <= 0 it ends
\* after the first request), and returns status "ok" unless a later page fails
\* at transport level.
C7_NotOkStopsPagination ==
    Searching =>
        \A k \in 1..Len(hist) :
            hist[k].outcome = "notok" =>
                /\ NotOkStopsAndKeeps(k)
                /\ pc = "done" =>
                    /\ (hist[k].qi < Len(reqs) /\ uq.max_results > 0) => k < Len(hist)
                    /\ ~TransportFailed => result.status = "ok"

\* C7 witness: page 2 of the first request was answered non-ok, the second
\* request was fetched, and the operation returned "ok" with records
C7_Witness ==
    /\ Searching /\ pc = "done" /\ result.status = "ok"
    /\ \E k \in 1..(Len(hist) - 1) :
        /\ hist[k].outcome = "notok" /\ hist[k].page = 2 /\ hist[k].qi = 1
        /\ hist[k + 1].qi = 2
    /\ result.articles # <<>>


----------------------------------------------------------------------------
(* The agent, news_agent.py: process_request (163-232) and _execute_tool
   (234-272).  The oracle is the messages.create call; one action per
   iteration of the 'while True' loop: the oracle's response and everything
   the iteration does with it. *)

\* Largest number of oracle calls of one process_request call
MaxTurns == 3

\* Number of articles the provider has for a search made through the agent
AvailableArticles == 12

\* A content block with a text attribute
TextBlock(t) == [type |-> "text", text |-> t]

\* A tool_use content block: no text attribute
ToolUseBlock(id, name, input) == [type |-> "tool_use", id |-> id, name |-> name, input |-> input]

\* {"role": "user", "content": user_prompt}
UserMessage(prompt) == [role |-> "user", content |-> <<[type |-> "prompt", text |-> prompt]>>]

\* {"role": "assistant", "content": response.content}
AssistantMessage(content) == [role |-> "assistant", content |-> content]

\* {"role": "user", "content": tool_results}
ToolResultsMessage(tool_results) == [role |-> "user", content |-> tool_results]

RECURSIVE ResponseText(_)
\* news_agent.py:193-196: the texts of the blocks that have one, concatenated
ResponseText(content) ==
    IF content = <<>> THEN ""
    ELSE (IF Head(content).type = "text" THEN Head(content).text ELSE "")
         \o ResponseText(Tail(content))

\* Strings of white space only: str.strip() gives "" exactly for these
BlankTexts == {"", " ", "\n"}

\* 'if response_text.strip()'
StripIsTruthy(t) == t \notin BlankTexts

RECURSIVE JoinResponses(_)
\* "\n\n".join(intermediate_responses)
JoinResponses(rs) ==
    IF rs = <<>> THEN ""
    ELSE IF Len(rs) = 1 THEN rs[1]
    ELSE rs[1] \o "\n\n" \o JoinResponses(Tail(rs))

\* What the collaborators do during one oracle turn: the provider behind the
\* client answers or fails in transport, the optimizer returns its fallback
\* query or a query with a datetime
ToolWorlds ==
    {[client |-> "ok", optimizer |-> LlmRaises],
     [client |-> "error", optimizer |-> LlmRaises],
     [client |-> "ok", optimizer |-> LlmText(<<DocToken(DatedDoc)>>)]}

\* The articles of an uninterrupted search made through the agent
AgentArticles == [i \in 1..AvailableArticles |-> [url |-> i, ser |-> i, qi |-> 1, page |-> 1]]

\* NewsAPIClient.search_everything as _execute_tool sees it
search_everything(u, w) ==
    IF generate_everything_queries(u).raises THEN Raised
    ELSE IF w.client = "error" THEN ErrorResult
    ELSE LET final_articles == Truncate(AgentArticles, u.max_results)
         IN [status |-> "ok", totalResults |-> Len(final_articles),
             articles |-> final_articles]

\* NewsAPIClient.search_top_headlines as _execute_tool sees it
search_top_headlines(u, w) ==
    IF generate_headlines_queries(u).yields = <<>>
    THEN [status |-> "ok", totalResults |-> 0, articles |-> <<>>]
    ELSE IF w.client = "error" THEN ErrorResult
    ELSE LET final_articles == Truncate(AgentArticles, u.max_results)
         IN [status |-> "ok", totalResults |-> Len(final_articles),
             articles |-> final_articles]

\* NewsAPIClient.get_sources as _execute_tool sees it
get_sources(u, w) ==
    IF w.client = "error" THEN ErrorSourcesResult
    ELSE [status |-> "ok", sources |-> [i \in 1..3 |-> [id |-> i, ser |-> i, qi |-> 1]]]

\* The first index after position from of a token whose kind is in kinds, or 0
FirstToken(tokens, kinds, from) ==
    LET found == {i \in (from + 1)..Len(tokens) : tokens[i].kind \in kinds}
    IN IF found = {} THEN 0 ELSE CHOOSE i \in found : \A j \in found : i <= j

\* response_text[start:-1]: the text after the opening fence without its last
\* character, so that a document ending the text is no longer one
CutLast(tokens) ==
    IF tokens = <<>> THEN <<>>
    ELSE [tokens EXCEPT ![Len(tokens)] = [kind |-> "prose"]]

\* The text _parse_response hands to json.loads. A response text is a
\* sequence of tokens: the fence "```json", the fence "```", a JSON document,
\* or other text (prose)
Unfenced(response_text) ==
    LET open == IF FirstToken(response_text, {"fence_json"}, 0) # 0
                THEN FirstToken(response_text, {"fence_json"}, 0)
                ELSE FirstToken(response_text, {"fence"}, 0)
        close == FirstToken(response_text, {"fence", "fence_json"}, open)
    IN IF open = 0 THEN response_text
       ELSE IF close # 0 THEN SubSeq(response_text, open + 1, close - 1)
       ELSE CutLast(SubSeq(response_text, open + 1, Len(response_text)))

\* QueryOptimizer._parse_response: the parsed document, or that json.loads
\* raised JSONDecodeError
parse_response(response_text) ==
    LET inner == Unfenced(response_text)
    IN IF Len(inner) = 1 /\ inner[1].kind = "doc"
       THEN [raises |-> FALSE, value |-> inner[1].value]
       ELSE [raises |-> TRUE]

\* The strings datetime.fromisoformat accepts
PlainIsoDates == {"2024-01-15"}

\* datetime.fromisoformat(query_dict['from_date']) inside try/except: the
\* datetime, or None when the key is absent or the parse raised
ParseDate(d) ==
    IF d # None /\ Val(d).s \in PlainIsoDates
    THEN Some([kind |-> "datetime", dt |-> IsoDates[Val(d).s]])
    ELSE None

\* query_dict.get(key, 100)
GetOr100(v) == IF v = None THEN 100 ELSE Val(v)

\* The UserQuery(...) call of _build_user_queries for one query dict
BuildUserQuery(fields) ==
    UserQueryInit([fields EXCEPT !.from_date = ParseDate(@), !.to_date = ParseDate(@),
                                 !.pageSize = GetOr100(@), !.max_results = GetOr100(@)])

\* The query dicts _build_user_queries keeps: dicts with a truthy 'q'
UsableEntry(e) == e.dict /\ TruthySeq(e.fields.q)

\* QueryOptimizer._build_user_queries: the list of UserQuery objects, or that
\* it raised (the document is no dict, or 'queries' cannot be iterated)
build_user_queries(optimization) ==
    IF optimization.type # "dict" \/ optimization.queries.kind = "null"
    THEN [raises |-> TRUE]
    ELSE LET queries_data == IF optimization.queries.kind = "absent" THEN <<>>
                             ELSE optimization.queries.items
             usable == SelectSeq(queries_data, UsableEntry)
         IN [raises |-> FALSE,
             value |-> [i \in 1..Len(usable) |-> BuildUserQuery(usable[i].fields)]]

\* _fallback_queries that returns no query
fallback_queries_empty(text) == <<>>

\* QueryOptimizer._fallback_queries: [UserQuery(q=user_input)]
fallback_queries(text) ==
    <<UserQueryInit(RawQuery(Some(text), None, None, None, None, 100, 100, NoShared))>>

\* QueryOptimizer.optimize_query(user_input) when the LLM call did l
optimize_query(text, l) ==
    IF l.raises THEN fallback_queries(text)
    ELSE LET parsed == parse_response(l.text)
         IN IF parsed.raises THEN fallback_queries(text)
            ELSE LET built == build_user_queries(parsed.value)
                 IN IF built.raises THEN fallback_queries(text)
                    ELSE built.value

\* FirstTen without the slice
FirstTenUncut(articles) == articles

\* result["articles"][:10]
FirstTen(articles) == SubSeq(articles, 1, Min(10, Len(articles)))

Raises == [raises |-> TRUE]

Returns(value) == [raises |-> FALSE, value |-> value]

\* _execute_tool that answers an unknown tool name with an error result
execute_tool_unknown_returns(tool_name, tool_input, w) ==
    IF tool_name = "optimize_queries"
    THEN Returns([queries |-> optimize_query(tool_input.user_input, w.optimizer)])
    ELSE IF tool_name \in {"search_everything", "search_top_headlines", "get_sources"}
    THEN LET query == UserQueryInit(tool_input)
         IN IF ~query.ok THEN Raises
            ELSE IF tool_name = "search_everything"
            THEN LET r == search_everything(query, w)
                 IN IF r = Raised THEN Raises
                    ELSE Returns([status |-> r.status, total_results |-> r.totalResults,
                                  articles |-> FirstTen(r.articles)])
            ELSE IF tool_name = "search_top_headlines"
            THEN LET r == search_top_headlines(query, w)
                 IN Returns([status |-> r.status, total_results |-> r.totalResults,
                             articles |-> FirstTen(r.articles)])
            ELSE LET r == get_sources(query, w)
                 IN Returns([status |-> r.status, sources |-> r.sources])
    ELSE Returns([status |-> "error", message |-> "unknown tool"])

\* _execute_tool(tool_name, tool_input): the value it returns, or that it raises
execute_tool(tool_name, tool_input, w) ==
    IF tool_name = "optimize_queries"
    THEN Returns([queries |-> optimize_query(tool_input.user_input, w.optimizer)])
    ELSE IF tool_name \in {"search_everything", "search_top_headlines", "get_sources"}
    THEN LET query == UserQueryInit(tool_input)
         IN IF ~query.ok THEN Raises
            ELSE IF tool_name = "search_everything"
            THEN LET r == search_everything(query, w)
                 IN IF r = Raised THEN Raises
                    ELSE Returns([status |-> r.status, total_results |-> r.totalResults,
                                  articles |-> FirstTen(r.articles)])
            ELSE IF tool_name = "search_top_headlines"
            THEN LET r == search_top_headlines(query, w)
                 IN Returns([status |-> r.status, total_results |-> r.totalResults,
                             articles |-> FirstTen(r.articles)])
            ELSE LET r == get_sources(query, w)
                 IN Returns([status |-> r.status, sources |-> r.sources])
    ELSE Raises

\* json.dumps(result) raises TypeError on a datetime: only the optimizer's
\* queries can hold one
JsonDumpsRaises(value) ==
    /\ "queries" \in DOMAIN value
    /\ \E i \in 1..Len(value.queries) :
          TruthyDate(value.queries[i].from_date) \/ TruthyDate(value.queries[i].to_date)

\* json.dumps(result): the serialised form of a result
JsonDumps(value) == [json |-> value]

\* The tool_use blocks of a response, in block order
ToolUses(content) == SelectSeq(content, LAMBDA b : b.type = "tool_use")

\* One iteration of 'for content_block in response.content' on a tool_use
\* block raises
BlockRaises(b, w) ==
    LET r == execute_tool(b.name, b.input, w)
    IN r.raises \/ JsonDumpsRaises(r.value)

\* The position in ToolUses(content) at which the turn raises, 0 if it does not
FirstRaising(content, w) ==
    LET uses == ToolUses(content)
    IN IF \E i \in 1..Len(uses) : BlockRaises(uses[i], w)
       THEN CHOOSE i \in 1..Len(uses) :
                /\ BlockRaises(uses[i], w)
                /\ \A j \in 1..(i - 1) : ~BlockRaises(uses[j], w)
       ELSE 0

\* ToolResults with the results in the reverse of the block order
ToolResultsReversed(content, w) ==
    LET uses == ToolUses(content)
    IN [i \in 1..Len(uses) |->
          [type |-> "tool_result", tool_use_id |-> uses[Len(uses) + 1 - i].id,
           content |-> JsonDumps(execute_tool(uses[Len(uses) + 1 - i].name,
                                              uses[Len(uses) + 1 - i].input, w).value)]]

\* news_agent.py:201-213: tool_results after the for loop
ToolResults(content, w) ==
    LET uses == ToolUses(content)
    IN [i \in 1..Len(uses) |->
          [type |-> "tool_result", tool_use_id |-> uses[i].id,
           content |-> JsonDumps(execute_tool(uses[i].name, uses[i].input, w).value)]]

\* The _execute_tool calls of a turn up to and including position n
Dispatches(content, n, turn, w) ==
    [i \in 1..n |-> [turn |-> turn, id |-> ToolUses(content)[i].id,
                     name |-> ToolUses(content)[i].name, w |-> w]]


\* The user prompts
Prompts == {"news about climate"}

\* What the oracle can answer at oracle call number turn; the input of the
\* tools that build a UserQuery is raw
OracleResponses(turn) ==
    {[stop_reason |-> "end_turn", content |-> <<TextBlock("Here is what I found.")>>],
     [stop_reason |-> "end_turn", content |-> <<TextBlock(" ")>>],
     [stop_reason |-> "max_tokens", content |-> <<TextBlock("Let me think")>>],
     [stop_reason |-> "tool_use",
      content |-> <<TextBlock("Searching."),
                    ToolUseBlock(<<turn, 2>>, "search_everything", raw)>>],
     [stop_reason |-> "tool_use",
      content |-> <<ToolUseBlock(<<turn, 1>>, "get_sources", raw),
                    TextBlock("Then "), TextBlock("headlines."),
                    ToolUseBlock(<<turn, 4>>, "search_top_headlines", raw)>>],
     [stop_reason |-> "tool_use",
      content |-> <<ToolUseBlock(<<turn, 1>>, "optimize_queries",
                                 [user_input |-> "news about climate"])>>],
     [stop_reason |-> "tool_use",
      content |-> <<ToolUseBlock(<<turn, 1>>, "get_sources", raw),
                    ToolUseBlock(<<turn, 2>>, "delete_articles", raw)>>]}

\* StoredAfter that writes the conversation into the map on every iteration
StoredAfterAlways(m) == [s \in SessionIds |-> Some(m)]

\* The stored conversation after messages became m: messages is the stored
\* list itself when aliased
StoredAfter(m) ==
    IF aliased THEN [conversation_history EXCEPT ![Val(session_id)] = Some(m)]
    ELSE conversation_history

\* SavedResponses that drops the text of a response that has tool_use blocks
SavedResponsesWithoutToolTurns(content) ==
    IF StripIsTruthy(ResponseText(content)) /\ ToolUses(content) = <<>>
    THEN Append(intermediate_responses, ResponseText(content))
    ELSE intermediate_responses

\* news_agent.py:198-199: the text of the response is saved if it is not blank
SavedResponses(content) ==
    IF StripIsTruthy(ResponseText(content))
    THEN Append(intermediate_responses, ResponseText(content))
    ELSE intermediate_responses

\* One oracle call: the conversation that was sent and the response
OracleCall(response) == [messages |-> messages, response |-> response]

\* The oracle call raised instead of answering
NoResponse == [stop_reason |-> "raised", content |-> <<>>]

\* The number of the next oracle call, counted over all process_request calls
TurnNo == used + Len(oracle_calls) + 1

\* process_request(user_prompt, session_id) up to the first oracle call; the
\* agent can be called again after a call has returned or raised
StartRequest ==
    /\ apc \in {"idle", "done", "raised"} /\ gen = "raw" /\ pc = "idle"
    /\ TurnNo <= MaxTurns
    /\ \E user_prompt \in Prompts, sid \in {None, Some(""), Some("s1")} :
         /\ session_id' = sid
         /\ IF TruthySeq(sid)
            THEN LET stored == conversation_history[Val(sid)]
                     m == Append(IF stored = None THEN <<>> ELSE Val(stored),
                                 UserMessage(user_prompt))
                 IN /\ messages' = m
                    /\ aliased' = (stored # None)
                    /\ conversation_history' =
                         IF stored # None
                         THEN [conversation_history EXCEPT ![Val(sid)] = Some(m)]
                         ELSE conversation_history
            ELSE /\ messages' = <<UserMessage(user_prompt)>>
                 /\ aliased' = FALSE
                 /\ UNCHANGED conversation_history
    /\ apc' = "awaiting"
    /\ intermediate_responses' = <<>>
    /\ returned' = NoReturn /\ oracle_calls' = <<>> /\ dispatched' = <<>>
    /\ used' = used + Len(oracle_calls)
    /\ entry_history' = conversation_history
    /\ UNCHANGED <<raw, uq, gen, out>>
    /\ UNCHANGED clientVars
    /\ UNCHANGED otherVars

\* self.client.messages.create(...) raises
OracleRaises ==
    /\ apc = "awaiting" /\ TurnNo <= MaxTurns
    /\ oracle_calls' = Append(oracle_calls, OracleCall(NoResponse))
    /\ apc' = "raised"
    /\ UNCHANGED <<conversation_history, session_id, messages, aliased,
                   intermediate_responses, returned, dispatched, used, entry_history>>
    /\ UNCHANGED <<raw, uq, gen, out>>
    /\ UNCHANGED clientVars
    /\ UNCHANGED otherVars

\* An iteration with stop_reason == "tool_use" in which every tool returns
TurnToolUse ==
    /\ apc = "awaiting" /\ TurnNo <= MaxTurns
    /\ \E response \in OracleResponses(TurnNo), w \in ToolWorlds :
         /\ response.stop_reason = "tool_use"
         /\ FirstRaising(response.content, w) = 0
         /\ oracle_calls' = Append(oracle_calls, OracleCall(response))
         /\ intermediate_responses' = SavedResponses(response.content)
         /\ dispatched' = dispatched \o Dispatches(response.content,
                                Len(ToolUses(response.content)), TurnNo, w)
         /\ LET m == messages \o <<AssistantMessage(response.content),
                                   ToolResultsMessage(ToolResults(response.content, w))>>
            IN /\ messages' = m
               /\ conversation_history' = StoredAfter(m)
    /\ UNCHANGED <<session_id, aliased, apc, returned, used, entry_history>>
    /\ UNCHANGED <<raw, uq, gen, out>>
    /\ UNCHANGED clientVars
    /\ UNCHANGED otherVars

\* An iteration with stop_reason == "tool_use" in which _execute_tool or
\* json.dumps raises: the exception leaves process_request
TurnToolUseRaises ==
    /\ apc = "awaiting" /\ TurnNo <= MaxTurns
    /\ \E response \in OracleResponses(TurnNo), w \in ToolWorlds :
         /\ response.stop_reason = "tool_use"
         /\ FirstRaising(response.content, w) > 0
         /\ oracle_calls' = Append(oracle_calls, OracleCall(response))
         /\ intermediate_responses' = SavedResponses(response.content)
         /\ dispatched' = dispatched \o Dispatches(response.content,
                                FirstRaising(response.content, w), TurnNo, w)
    /\ apc' = "raised"
    /\ UNCHANGED <<conversation_history, session_id, messages, aliased, returned,
                   used, entry_history>>
    /\ UNCHANGED <<raw, uq, gen, out>>
    /\ UNCHANGED clientVars
    /\ UNCHANGED otherVars

\* FinalMessages without the append of the final assistant turn
FinalMessagesWithoutLastTurn(content) == messages

\* news_agent.py:224-225: messages when process_request returns
FinalMessages(content) ==
    IF TruthySeq(session_id) THEN Append(messages, AssistantMessage(content))
    ELSE messages

\* An iteration with stop_reason == "end_turn": process_request returns
TurnEndTurn ==
    /\ apc = "awaiting" /\ TurnNo <= MaxTurns
    /\ \E response \in OracleResponses(TurnNo) :
         /\ response.stop_reason = "end_turn"
         /\ oracle_calls' = Append(oracle_calls, OracleCall(response))
         /\ intermediate_responses' = SavedResponses(response.content)
         /\ LET m == FinalMessages(response.content)
            IN /\ messages' = m
               /\ conversation_history' =
                    IF TruthySeq(session_id)
                    THEN [conversation_history EXCEPT ![Val(session_id)] = Some(m)]
                    ELSE conversation_history
               /\ aliased' = TruthySeq(session_id)
               /\ returned' = [status |-> "returned",
                               response |-> JoinResponses(intermediate_responses'),
                               intermediate_responses |-> intermediate_responses',
                               messages |-> m]
    /\ apc' = "done"
    /\ UNCHANGED <<session_id, dispatched, used, entry_history>>
    /\ UNCHANGED <<raw, uq, gen, out>>
    /\ UNCHANGED clientVars
    /\ UNCHANGED otherVars

\* An iteration with any other stop_reason: neither branch is taken and the
\* loop calls the oracle again
TurnOtherStop ==
    /\ apc = "awaiting" /\ TurnNo <= MaxTurns
    /\ \E response \in OracleResponses(TurnNo) :
         /\ response.stop_reason \notin {"tool_use", "end_turn"}
         /\ oracle_calls' = Append(oracle_calls, OracleCall(response))
         /\ intermediate_responses' = SavedResponses(response.content)
    /\ UNCHANGED <<conversation_history, session_id, messages, aliased, apc, returned,
                   dispatched, used, entry_history>>
    /\ UNCHANGED <<raw, uq, gen, out>>
    /\ UNCHANGED clientVars
    /\ UNCHANGED otherVars

\* The keyword arguments the oracle gives to the tools that build a UserQuery
AgentInputs ==
    {RawQuery(q, None, Some(<<"en">>), cm[1], None, 100, cm[2], NoShared) :
        q \in QInputs, cm \in {<<None, 3>>, <<Some(<<"us">>), 100>>}}
    \cup
    {RawQuery(Some("climate"), None, None, None, None, 100, 100, sh) :
        sh \in {x \in SharedInputs : DateRaises(x.from_date)}}

InitAgent ==
    /\ raw \in AgentInputs
    /\ uq = NotBuilt
    /\ gen = "raw"
    /\ out = NoOut
    /\ world = "distinct"
    /\ ClientIdle
    /\ conversation_history = NoHistory
    /\ AgentIdle
    /\ OthersIdle

NextAgent ==
    \/ Next
    \/ StartRequest
    \/ OracleRaises
    \/ TurnToolUse
    \/ TurnToolUseRaises
    \/ TurnEndTurn
    \/ TurnOtherStop

\* One use of the engine: a client operation on UserQuery(**raw), or a
\* sequence of process_request calls whose tools are given raw
SpecAgent == InitAgent /\ [][NextAgent]_vars


----------------------------------------------------------------------------
(* Properties of the agent and of the client beneath it (SpecAgent) *)

\* The last element of a non-empty sequence
Last(xs) == xs[Len(xs)]

\* The tool results held by the conversation m
ToolResultIds(m) ==
    {m[i].content[j].tool_use_id :
        <<i, j>> \in {x \in (1..Len(m)) \X (1..4) :
                        /\ x[2] <= Len(m[x[1]].content)
                        /\ m[x[1]].content[x[2]].type = "tool_result"}}

\* C14: when the UserQuery has no query string (absent or empty), search
\* expansion fails with an error before any request is emitted or sent, and
\* the failure is fatal: it propagates out of search_everything and out of
\* the search_everything tool dispatch instead of becoming an error result.
C14_MissingQueryIsFatal ==
    ~TruthySeq(raw.q) =>
        /\ Built => generate_everything_queries(uq) = [raises |-> TRUE, yields |-> <<>>]
        /\ op = "everything" =>
             /\ pc = "done" /\ result = Raised /\ result # ErrorResult
             /\ reqs = <<>> /\ hist = <<>>
        /\ \A k \in 1..Len(dispatched) :
             dispatched[k].name = "search_everything" =>
                /\ k = Len(dispatched)
                /\ apc = "raised" /\ returned = NoReturn
                /\ messages = Last(oracle_calls).messages
                /\ dispatched[k].id \notin ToolResultIds(messages)

\* C14 witness: the oracle asked for search_everything with an empty query
\* string and the dispatch ended the call with the error
C14_Witness ==
    /\ raw.q = Some("")
    /\ apc = "raised"
    /\ dispatched # <<>> /\ Last(dispatched).name = "search_everything"

\* The texts of the oracle turns of this call, in turn order
TurnTexts == [k \in 1..Len(oracle_calls) |-> ResponseText(oracle_calls[k].response.content)]

\* Those of them that are not blank
TextsOfTurnsWithText == SelectSeq(TurnTexts, LAMBDA t : t \notin BlankTexts)

DispatchedIn(k) == SelectSeq(dispatched, LAMBDA d : d.turn = used + k)

\* The conversation after the iteration of oracle call k
ConversationAfter(k) ==
    IF k < Len(oracle_calls) THEN oracle_calls[k + 1].messages ELSE messages

----------------------------------------------------------------------------
(* QueryOptimizer.optimize_query, query_optimizer.py:124-258 *)

\* The largest number of elements of a 'queries' array
MaxQueries == 2

RECURSIVE Repeat(_, _)
\* s * n
Repeat(s, n) == IF n = 0 THEN "" ELSE s \o Repeat(s, n - 1)

\* A user text longer than the 500 characters validate_query_string keeps
LongText == Repeat("climate ", 63)

UserInputs == {"", "news about climate", LongText}

\* The elements a 'queries' array is built from
QueryDicts ==
    {NoDict,
     QueryDict(None, None, None, None, None),
     QueryDict(Some(""), None, None, Some(<<"en">>), None),
     QueryDict(Some("climate"), None, None, None, None),
     QueryDict(Some("climate"), Some([kind |-> "str", s |-> "2024-01-15"]),
               Some([kind |-> "str", s |-> "yesterday"]), Some(<<"EN", "de">>), Some(5))}

RECURSIVE SeqsUpTo(_, _)
\* The sequences over S of length at most n
SeqsUpTo(S, n) ==
    IF n = 0 THEN {<<>>}
    ELSE SeqsUpTo(S, n - 1) \cup
         {Append(x, e) : x \in {y \in SeqsUpTo(S, n - 1) : Len(y) = n - 1}, e \in S}

\* The JSON documents an LLM answer can hold: an array, an object without
\* 'queries', with 'queries': null, or with a 'queries' array
Docs ==
    {[type |-> "list"],
     [type |-> "dict", queries |-> [kind |-> "absent"]],
     [type |-> "dict", queries |-> [kind |-> "null"]]}
    \cup {QueriesDoc(items) : items \in SeqsUpTo(QueryDicts, MaxQueries)}

\* What the LLM call can do: raise, or return a text that is a document,
\* a document in a fenced block (closed or not), or no document
LlmOutcomes ==
    {LlmRaises, LlmText(<<>>), LlmText(<<Prose>>), LlmText(<<FenceJson>>)}
    \cup {LlmText(<<DocToken(d)>>) : d \in Docs}
    \cup {LlmText(<<Prose, FenceJson, DocToken(d), Fence, Prose>>) : d \in Docs}
    \cup {LlmText(<<Fence, DocToken(d), Fence>>) : d \in Docs}
    \cup {LlmText(<<FenceJson, DocToken(d)>>) : d \in Docs}
    \cup {LlmText(<<Prose, DocToken(d)>>) : d \in Docs}
    \cup {LlmText(<<Fence, DocToken([type |-> "list"]), Fence, FenceJson, DocToken(d), Fence>>) :
             d \in Docs}

\* optimizer.optimize_query(user_input), a call with any user text to which
\* the LLM reacts in any way
OptimizeQuery ==
    /\ user_queries = None
    /\ \E text \in UserInputs, l \in LlmOutcomes :
         /\ user_input' = text
         /\ llm' = l
         /\ user_queries' = Some(optimize_query(text, l))
    /\ UNCHANGED <<query_response, raw, uq, gen, out, search_result>>
    /\ UNCHANGED clientVars
    /\ UNCHANGED agentVars
    /\ UNCHANGED ownerVars

InitOptimizer ==
    /\ raw = RawQuery(None, None, None, None, None, 100, 100, NoShared)
    /\ uq = NotBuilt
    /\ gen = "raw"
    /\ out = NoOut
    /\ world = "distinct"
    /\ ClientIdle
    /\ conversation_history = NoHistory
    /\ AgentIdle
    /\ OthersIdle

NextOptimizer == OptimizeQuery

SpecOptimizer == InitOptimizer /\ [][NextOptimizer]_vars

\* optimize_query took the except branch: the LLM call, the parsing or the
\* query building raised
OptimizerFailed ==
    \/ llm.raises
    \/ parse_response(llm.text).raises
    \/ build_user_queries(parse_response(llm.text).value).raises

\* Every filter of a UserQuery other than q is unset
FiltersUnset(u) ==
    /\ u.searchIn = None /\ u.sources = None /\ u.domains = None
    /\ u.excludeDomains = None /\ u.from_date = None /\ u.to_date = None
    /\ u.sortBy = None /\ u.languages = None /\ u.countries = None
    /\ u.categories = None

\* The first 500 characters of a text
First500(text) == IF Len(text) > 500 THEN SubSeq(text, 1, 500) ELSE text

\* C25 as stated: whenever the optimizer's LLM call, response parsing or
\* query building raises, optimize_query returns exactly one query whose
\* query string is the raw user text and whose other filters are unset.
C25_Original ==
    (user_queries # None /\ OptimizerFailed) =>
        /\ Len(Val(user_queries)) = 1
        /\ Val(user_queries)[1].ok
        /\ Val(user_queries)[1].q = Some(user_input)
        /\ FiltersUnset(Val(user_queries)[1])

\* C25 (amended): whenever the optimizer's LLM call, response parsing or
\* query building raises, optimize_query returns (no error propagates)
\* exactly one query whose query string is the raw user text cut to its
\* first 500 characters and whose other filters are unset.
C25_FallbackOnFailure ==
    (user_queries # None /\ OptimizerFailed) =>
        /\ Len(Val(user_queries)) = 1
        /\ Val(user_queries)[1].ok
        /\ Val(user_queries)[1].q = Some(First500(user_input))
        /\ FiltersUnset(Val(user_queries)[1])

\* C25 witness: the LLM answered with a document that parsed, query building
\* raised on it, and the fallback query of a long user text was returned
C25_Witness ==
    /\ user_queries # None /\ ~llm.raises
    /\ ~parse_response(llm.text).raises
    /\ build_user_queries(parse_response(llm.text).value).raises
    /\ Len(user_input) > 500
    /\ Len(Val(Val(user_queries)[1].q)) = 500

\* C26: for every user input and every LLM response, optimize_query returns
\* a list of at least one UserQuery, and every returned UserQuery has a
\* non-empty query string.
C26_AtLeastOneUsableQuery ==
    user_queries # None =>
        /\ Len(Val(user_queries)) >= 1
        /\ \A i \in 1..Len(Val(user_queries)) : TruthySeq(Val(user_queries)[i].q)

----------------------------------------------------------------------------
(* SearchResult, models.py:512-524 *)

\* The largest total_found given to the constructor
MaxTotalFound == 3

\* The largest number of articles a SearchResult holds
MaxResultArticles == 3

\* The Article objects given to a SearchResult
ResultArticles == {[url |-> i] : i \in 1..3}

\* SearchResult(query, total_found, articles): the dataclass constructor
\* stores both fields as given
NewSearchResult ==
    /\ search_result = None
    /\ \E total_found \in 0..MaxTotalFound,
          articles \in SeqsUpTo(ResultArticles, MaxResultArticles) :
         search_result' = Some([total_found |-> total_found, articles |-> articles])
    /\ UNCHANGED <<query_response, raw, uq, gen, out>>
    /\ UNCHANGED clientVars
    /\ UNCHANGED agentVars
    /\ UNCHANGED optimizerVars
    /\ UNCHANGED ownerVars

\* SearchResult.add_article(article)
add_article ==
    /\ search_result # None
    /\ Len(Val(search_result).articles) < MaxResultArticles
    /\ \E article \in ResultArticles :
         LET articles == Append(Val(search_result).articles, article)
         IN search_result' = Some([total_found |-> Len(articles), articles |-> articles])
    /\ UNCHANGED <<query_response, raw, uq, gen, out>>
    /\ UNCHANGED clientVars
    /\ UNCHANGED agentVars
    /\ UNCHANGED optimizerVars
    /\ UNCHANGED ownerVars

InitResult ==
    /\ raw = RawQuery(Some("climate"), None, None, None, None, 100, 100, NoShared)
    /\ uq = NotBuilt
    /\ gen = "raw"
    /\ out = NoOut
    /\ world = "distinct"
    /\ ClientIdle
    /\ conversation_history = NoHistory
    /\ AgentIdle
    /\ OthersIdle

NextResult ==
    \/ NewSearchResult
    \/ add_article

SpecResult == InitResult /\ [][NextResult]_vars

\* C27: in every reachable state of a SearchResult, from construction onward
\* and after any number of add_article calls, total_found equals the number
\* of articles in the result.
C27_TotalFoundIsArticleCount ==
    search_result # None =>
        Val(search_result).total_found = Len(Val(search_result).articles)

\* C28: within one search operation the expanded requests are fetched
\* strictly sequentially in expansion order: every page of expanded request i
\* is requested before any page of request i+1, and the pages of one request
\* are requested as 1, 2, 3, ... with no page skipped or repeated.
C28_SequentialFetch ==
    op \in {"everything", "headlines"} =>
        /\ hist # <<>> => hist[1].qi = 1 /\ hist[1].page = 1
        /\ \A k \in 1..Len(hist) : hist[k].qi \in 1..Len(reqs)
        /\ \A k \in 1..(Len(hist) - 1) :
             \/ hist[k + 1].qi = hist[k].qi /\ hist[k + 1].page = hist[k].page + 1
             \/ hist[k + 1].qi = hist[k].qi + 1 /\ hist[k + 1].page = 1

\* C28 witness: two pages of the first expanded request were requested and
\* then the first page of the second
C28_Witness ==
    /\ op \in {"everything", "headlines"} /\ Len(hist) >= 3
    /\ hist[1].qi = 1 /\ hist[1].page = 1
    /\ hist[2].qi = 1 /\ hist[2].page = 2
    /\ hist[3].qi = 2 /\ hist[3].page = 1

\* C30: deduplication is idempotent: applying the URL-keyed merge to a record
\* list concatenated with itself, or applying the merge to its own output,
\* gives the same list as applying it once.
C30_DedupIdempotent ==
    \A all \in {all_articles, fetched, all_articles \o query_articles} :
        (\A i \in 1..Len(all) : "url" \in DOMAIN all[i]) =>
            /\ DedupArticles(all \o all) = DedupArticles(all)
            /\ DedupArticles(DedupArticles(all)) = DedupArticles(all)

\* C30 witness: the merge was applied to a list holding one URL twice and a
\* record without URL, and the operation returned its result
C30_Witness ==
    /\ op \in {"everything", "headlines"} /\ pc = "done" /\ result.status = "ok"
    /\ \E i \in 1..Len(all_articles) : all_articles[i].url = 0
    /\ \E i, j \in 1..Len(all_articles) :
         i < j /\ all_articles[i].url # 0 /\ all_articles[i].url = all_articles[j].url
    /\ DedupArticles(all_articles \o all_articles) = DedupArticles(all_articles)
    /\ Len(DedupArticles(all_articles)) < Len(all_articles)

----------------------------------------------------------------------------
(* The owners of a NewsAPIClient: a with block (news_client.py:303-307), the
   API server lifespan (api_server/main.py:37-77) and the actor entry points
   (.actor/src/actor_main.py:23-109, .actor/src/main.py:14-74) *)

Owners == {"with", "lifespan", "actor_main", "main"}

\* The ways an owner is left
ExitPaths == {"returned", "failed", "abandoned"}

\* Whether the owner calls close() when it is left on a path: __exit__ and
\* the finally block of actor_main run on every path, the lifespan closes
\* after its yield only when it is resumed normally, main.py has no close
Closes(o, path) ==
    CASE o = "with" -> TRUE
      [] o = "actor_main" -> TRUE
      [] o = "lifespan" -> path = "returned"
      [] o = "main" -> FALSE

\* The session after the owner was left on a path
SessionAfterExit(path) == IF Closes(owner, path) THEN "closed" ELSE "open"

\* The owner constructs the client: NewsAPIClient.__init__ opens the session
OwnerStart ==
    /\ owner_pc = "idle"
    /\ \E o \in Owners : owner' = o
    /\ owner_pc' = "running"
    /\ http_session' = "open"
    /\ UNCHANGED <<query_response, raw, uq, gen, out, search_result>>
    /\ UNCHANGED clientVars
    /\ UNCHANGED agentVars
    /\ UNCHANGED optimizerVars

\* The actor entry points make one process_request call, the others any number
OwnerStartRequest ==
    /\ owner_pc = "running"
    /\ owner \in {"actor_main", "main"} => apc = "idle"
    /\ StartRequest

OwnerOracleRaises == owner_pc = "running" /\ OracleRaises

OwnerTurnToolUse == owner_pc = "running" /\ TurnToolUse

OwnerTurnToolUseRaises == owner_pc = "running" /\ TurnToolUseRaises

OwnerTurnEndTurn == owner_pc = "running" /\ TurnEndTurn

OwnerTurnOtherStop == owner_pc = "running" /\ TurnOtherStop

\* The owner ends normally: the with block or the try block is left after
\* the calls returned, the server is shut down
OwnerReturns ==
    /\ owner_pc = "running"
    /\ IF owner \in {"actor_main", "main"} THEN apc = "done" ELSE apc \in {"idle", "done"}
    /\ owner_pc' = "returned"
    /\ http_session' = SessionAfterExit("returned")
    /\ UNCHANGED <<query_response, raw, uq, gen, out, search_result, owner>>
    /\ UNCHANGED clientVars
    /\ UNCHANGED agentVars
    /\ UNCHANGED optimizerVars

\* An exception leaves the owner's body: process_request raised in a with
\* block or in an actor's try block, or the lifespan's startup raised after
\* the client was constructed
OwnerFails ==
    /\ owner_pc = "running"
    /\ IF owner = "lifespan" THEN apc = "idle" /\ used = 0 ELSE apc = "raised"
    /\ owner_pc' = "failed"
    /\ http_session' = SessionAfterExit("failed")
    /\ UNCHANGED <<query_response, raw, uq, gen, out, search_result, owner>>
    /\ UNCHANGED clientVars
    /\ UNCHANGED agentVars
    /\ UNCHANGED optimizerVars

\* The run is abandoned (cancelled or interrupted) while the owner is running
OwnerAbandoned ==
    /\ owner_pc = "running"
    /\ owner_pc' = "abandoned"
    /\ http_session' = SessionAfterExit("abandoned")
    /\ UNCHANGED <<query_response, raw, uq, gen, out, search_result, owner>>
    /\ UNCHANGED clientVars
    /\ UNCHANGED agentVars
    /\ UNCHANGED optimizerVars

InitOwner ==
    /\ raw = RawQuery(Some("climate"), None, Some(<<"en">>), None, None, 100, 100, NoShared)
    /\ uq = NotBuilt
    /\ gen = "raw"
    /\ out = NoOut
    /\ world = "distinct"
    /\ ClientIdle
    /\ conversation_history = NoHistory
    /\ AgentIdle
    /\ OthersIdle

NextOwner ==
    \/ OwnerStart
    \/ OwnerStartRequest
    \/ OwnerOracleRaises
    \/ OwnerTurnToolUse
    \/ OwnerTurnToolUseRaises
    \/ OwnerTurnEndTurn
    \/ OwnerTurnOtherStop
    \/ OwnerReturns
    \/ OwnerFails
    \/ OwnerAbandoned

SpecOwner == InitOwner /\ [][NextOwner]_vars

\* C29: the HTTP session of a NewsAPIClient is closed on every exit path of
\* its owner: on normal return, on an exception, and when the run is
\* abandoned early; this holds for use as a context manager, for the API
\* server lifespan and for both actor entry points.
C29_SessionClosedOnEveryExit ==
    owner_pc \in ExitPaths => http_session = "closed"

\* x is an initial segment of y
IsPrefix(x, y) == Len(x) <= Len(y) /\ SubSeq(y, 1, Len(x)) = x

\* The call in progress was made with a session identifier
WithSession == apc # "idle" /\ TruthySeq(session_id)

\* C21: when process_request is called with a session identifier and the
\* oracle ends the turn, the conversation stored under that identifier is the
\* full conversation of the call including the final assistant turn; a later
\* call with the same identifier sends the oracle exactly that stored
\* conversation followed by the new user message; the stored conversation of
\* a session only ever grows by appending.
C21_SessionConversationPersists ==
    /\ (WithSession /\ apc = "done") =>
         /\ conversation_history[Val(session_id)] = Some(returned.messages)
         /\ returned.messages = messages
         /\ messages = Append(Last(oracle_calls).messages,
                              [role |-> "assistant",
                               content |-> Last(oracle_calls).response.content])
    /\ (WithSession /\ oracle_calls # <<>>) =>
         LET stored == entry_history[Val(session_id)]
             first == oracle_calls[1].messages
         IN /\ stored # None =>
                 /\ Len(first) = Len(Val(stored)) + 1
                 /\ SubSeq(first, 1, Len(Val(stored))) = Val(stored)
            /\ stored = None => Len(first) = 1
            /\ Last(first).role = "user"
            /\ \E p \in Prompts : Last(first).content = <<[type |-> "prompt", text |-> p]>>
    /\ \A s \in SessionIds :
         entry_history[s] # None =>
            /\ conversation_history[s] # None
            /\ IsPrefix(Val(entry_history[s]), Val(conversation_history[s]))

\* C21 witness: a second call with session "s1" returned, after a first call
\* with "s1" had stored its conversation
C21_Witness ==
    /\ apc = "done" /\ session_id = Some("s1") /\ used > 0
    /\ entry_history["s1"] # None
    /\ Len(Val(conversation_history["s1"])) = Len(Val(entry_history["s1"])) + 2

\* C22: a process_request call made without a session identifier leaves the
\* session-keyed conversation map unchanged (no entry is added or modified),
\* whatever the oracle returns and however many tool-use turns occur.
C22_NoSessionLeavesMapUnchanged ==
    (apc # "idle" /\ ~TruthySeq(session_id)) => conversation_history = entry_history

\* C22 witness: a call without session identifier returned after a tool-use
\* turn, while the map held a conversation of an earlier call
C22_Witness ==
    /\ apc = "done" /\ session_id = None
    /\ dispatched # <<>>
    /\ entry_history["s1"] # None
    /\ conversation_history = entry_history

\* The tool_result blocks of the conversation that answer invocation id
ToolResultsFor(id) ==
    {messages[x[1]].content[x[2]] :
        x \in {y \in (1..Len(messages)) \X (1..4) :
                 /\ y[2] <= Len(messages[y[1]].content)
                 /\ messages[y[1]].content[y[2]].type = "tool_result"
                 /\ messages[y[1]].content[y[2]].tool_use_id = id}}

\* The dispatches of this call whose turn was appended to the conversation
ReturnedDispatches ==
    {k \in 1..Len(dispatched) :
        ~(apc = "raised" /\ dispatched[k].turn = used + Len(oracle_calls))}

\* C23: the tool result inserted into the conversation for search_everything
\* and search_top_headlines contains at most 10 articles, the first 10 of the
\* client result, whatever max_results the invocation asked for, while its
\* total_results field keeps the client's count; the get_sources tool result
\* contains every source returned by the client.
C23_ToolResultShaping ==
    \A k \in ReturnedDispatches :
        LET d == dispatched[k]
            query == UserQueryInit(raw)
            inserted == ToolResultsFor(d.id)
        IN /\ d.name \in {"search_everything", "search_top_headlines", "get_sources"} =>
                Cardinality(inserted) = 1
           /\ \A t \in inserted :
                /\ d.name \in {"search_everything", "search_top_headlines"} =>
                     LET r == IF d.name = "search_everything"
                              THEN search_everything(query, d.w)
                              ELSE search_top_headlines(query, d.w)
                         n == Len(r.articles)
                     IN /\ Len(t.content.json.articles) = IF n <= 10 THEN n ELSE 10
                        /\ \A i \in 1..Len(t.content.json.articles) :
                             t.content.json.articles[i] = r.articles[i]
                        /\ t.content.json.total_results = r.totalResults
                        /\ t.content.json.status = r.status
                        /\ (r.status = "ok" /\ raw.max_results = 100
                                /\ (d.name = "search_everything" \/ TruthySeq(raw.countries))) =>
                             n = AvailableArticles /\ t.content.json.total_results = n
                /\ d.name = "get_sources" =>
                     t.content.json.sources = get_sources(query, d.w).sources

\* C23 witness: a search_everything invocation with max_results = 100 got a
\* client result longer than 10 and its tool result was inserted
C23_Witness ==
    /\ raw.max_results = 100
    /\ \E k \in ReturnedDispatches :
         /\ dispatched[k].name = "search_everything"
         /\ \E t \in ToolResultsFor(dispatched[k].id) :
              Len(t.content.json.articles) = 10 /\ t.content.json.total_results > 10

\* news_agent.py:25-150: the names in self.tools
ToolNames == {"optimize_queries", "search_everything", "search_top_headlines", "get_sources"}

\* C24: a tool invocation whose name is not one of the four defined tools
\* fails fatally: _execute_tool raises, the error propagates out of
\* process_request, no tool-results turn is appended for that oracle turn and
\* the loop never reaches done.
C24_UnknownToolIsFatal ==
    \A k \in 1..Len(dispatched) :
        dispatched[k].name \notin ToolNames =>
            /\ k = Len(dispatched)
            /\ apc = "raised" /\ returned = NoReturn
            /\ messages = Last(oracle_calls).messages
            /\ \A j \in 1..Len(dispatched) :
                 dispatched[j].turn = dispatched[k].turn =>
                    ToolResultsFor(dispatched[j].id) = {}

\* C24 witness: a turn invoked get_sources and then an unknown tool
C24_Witness ==
    /\ apc = "raised" /\ Len(dispatched) >= 2
    /\ Last(dispatched).name = "delete_articles"
    /\ dispatched[Len(dispatched) - 1].name = "get_sources"


\* A second expansion of the UserQuery of the operation in progress
SecondExpansion ==
    CASE op = "everything" -> generate_everything_queries(uq).yields
      [] op = "headlines" -> generate_headlines_queries(uq).yields
      [] op = "sources" -> generate_sources_queries(uq).yields

\* A request as the generator yielded it, before pagination wrote its page
AsYielded(r) == IF "page" \in DOMAIN r THEN [r EXCEPT !.page = 1] ELSE r

SourcesReturned == op = "sources" /\ pc = "done" /\ result.status = "ok"

\* C32: get_sources returns every distinct source id found in the ok
\* responses of all expanded sources requests exactly once, keeping the first
\* record seen for each id, with no cap on the number of sources; records
\* without an id are dropped, and an expanded request answered with a non-ok
\* status is skipped without ending the operation.
C32_SourcesMerged ==
    SourcesReturned =>
        LET final == result.sources
        IN /\ {final[k].id : k \in 1..Len(final)} =
                {fetched[j].id : j \in 1..Len(fetched)} \ {0}
           /\ \A k, l \in 1..Len(final) : final[k].id = final[l].id => k = l
           /\ \A k \in 1..Len(final) :
                \E j \in 1..Len(fetched) :
                    /\ fetched[j] = final[k]
                    /\ \A i \in 1..(j - 1) : fetched[i].id # final[k].id
           /\ \A k, l \in 1..Len(final) : k < l => final[k].ser < final[l].ser
           /\ Len(hist) = Len(reqs)
           /\ \A k \in 1..Len(hist) : hist[k].qi = k /\ hist[k].outcome \in {"ok", "notok"}

\* C32 witness: a request was answered non-ok before a later one brought
\* sources, a record had no id, an id came twice, and more sources were
\* returned than max_results
C32_Witness ==
    /\ SourcesReturned
    /\ \E k, l \in 1..Len(hist) :
         k < l /\ hist[k].outcome = "notok" /\ hist[l].outcome = "ok" /\ hist[l].n > 0
    /\ \E j \in 1..Len(fetched) : fetched[j].id = 0
    /\ \E i, j \in 1..Len(fetched) : i < j /\ fetched[i].id # 0 /\ fetched[i].id = fetched[j].id
    /\ Len(result.sources) > 0

\* C32 witness part: no cap, more sources than max_results were returned
C32_Uncapped == SourcesReturned /\ uq.max_results = 3 /\ Len(result.sources) > 3


\* C33: the dispatch loop makes progress on every oracle turn: after each
\* oracle call it either appends the assistant turn and a tool-results turn
\* to the conversation or returns the final answer, whatever stop signal the
\* oracle returned; the oracle is never called twice with an unchanged
\* conversation, so process_request returns as soon as the oracle stops
\* asking for tools.
C33_EveryTurnMakesProgress ==
    /\ \A k \in 1..(Len(oracle_calls) - 1) :
         /\ oracle_calls[k + 1].messages # oracle_calls[k].messages
         /\ Len(oracle_calls[k + 1].messages) = Len(oracle_calls[k].messages) + 2
    /\ \A k \in 1..Len(oracle_calls) :
         oracle_calls[k].response.stop_reason \notin {"tool_use", "raised"} =>
            k = Len(oracle_calls) /\ apc = "done"

\* C34: if a process_request call with a session identifier ends in a fatal
\* error, the conversation stored under that identifier is exactly what it
\* was before the call, both for a new session and for a session that
\* already has stored history.
C34_FatalErrorLeavesStoredConversation ==
    (apc = "raised" /\ TruthySeq(session_id)) =>
        conversation_history[Val(session_id)] = entry_history[Val(session_id)]

\* The roles of the turns of a conversation
Roles(m) == [i \in 1..Len(m) |-> m[i].role]

\* A conversation begins with a user turn, alternates user and assistant
\* turns and ends with an assistant turn
WellFormedConversation(m) ==
    /\ Len(m) >= 2 /\ Len(m) % 2 = 0
    /\ \A i \in 1..Len(m) : m[i].role = IF i % 2 = 1 THEN "user" ELSE "assistant"

\* C35: after any sequence of process_request calls on any session
\* identifiers, including calls that ended in a fatal error, every
\* conversation stored in the session map begins with a user turn, strictly
\* alternates user and assistant turns, and ends with an assistant turn.
C35_StoredConversationsWellFormed ==
    apc \in {"idle", "done", "raised"} =>
        \A s \in SessionIds :
            conversation_history[s] # None =>
                WellFormedConversation(Val(conversation_history[s]))


\* C36: for every UserQuery whose expansion succeeds, every pageSize and
\* max_results value, and every provider behaviour in which each ok page
\* holds at most the requested number of records, search_everything and
\* search_top_headlines issue finitely many page requests and return. The
\* pagination of a request is finite for every provider exactly when each
\* page that is followed by another page of the same request brought at
\* least one record: the records still missing to the budget then decrease.
C36_PaginationTerminates ==
    op \in {"everything", "headlines"} =>
        \A k \in 1..(Len(hist) - 1) :
            (hist[k + 1].qi = hist[k].qi /\ hist[k].n <= hist[k].pageSize) =>
                hist[k].n > 0

\* Round trip k ended the pagination of its request by the budget test alone
\* (news_client.py:98): the page was full and the request had more records
BudgetStopped(k) ==
    /\ hist[k].outcome = "ok"
    /\ hist[k].n >= uq.pageSize
    /\ hist[k].acc < hist[k].total
    /\ hist[k].allBefore + hist[k].acc >= uq.max_results

\* C37: the result budget cuts a search operation short only when the cap is
\* actually filled: if search_everything or search_top_headlines returns
\* status "ok" with fewer than max_results articles, then every expanded
\* request was fetched and none of them stopped paginating because of the
\* budget.
C37_BudgetCutsOnlyWhenFilled ==
    (/\ op \in {"everything", "headlines"} /\ pc = "done"
     /\ result # Raised /\ result.status = "ok"
     /\ Len(result.articles) < uq.max_results) =>
        /\ reqs # <<>> => hist # <<>> /\ hist[Len(hist)].qi = Len(reqs)
        /\ \A k \in 1..Len(hist) : ~BudgetStopped(k)

\* ---------------------------------------------------------------------------
\* api_server/main.py: the POST /query endpoint over process_request
\* ---------------------------------------------------------------------------

\* json.loads(tool_content): the value a tool result was serialised from
JsonLoads(text) == text.json

\* Article(**article): the fields of the response model that an article of
\* the client carries
Article(article) == [url |-> article.url]

RECURSIVE ItemsArticles(_)
\* main.py:220-236: the articles of the tool_result items of one message
\* content, in item order; an item without "articles" adds nothing
ItemsArticles(content) ==
    IF content = <<>> THEN <<>>
    ELSE LET item == Head(content)
         IN (IF item.type = "tool_result" /\ "articles" \in DOMAIN JsonLoads(item.content)
             THEN JsonLoads(item.content).articles
             ELSE <<>>)
            \o ItemsArticles(Tail(content))

RECURSIVE ItemsTotal(_, _)
\* main.py:235: total_results = max(total_results, tool_data.get("total_results", 0))
ItemsTotal(content, total_results) ==
    IF content = <<>> THEN total_results
    ELSE LET item == Head(content)
         IN ItemsTotal(Tail(content),
                IF item.type = "tool_result" /\ "articles" \in DOMAIN JsonLoads(item.content)
                THEN Max(total_results, JsonLoads(item.content).total_results)
                ELSE total_results)

RECURSIVE MessagesArticles(_)
\* main.py:212-240: the loop over the messages; only the messages of role
\* "user" are looked at (the prompt of a user message is a string, which has
\* no tool_result item)
MessagesArticles(ms) ==
    IF ms = <<>> THEN <<>>
    ELSE (IF Head(ms).role = "user" THEN ItemsArticles(Head(ms).content) ELSE <<>>)
         \o MessagesArticles(Tail(ms))

RECURSIVE MessagesTotal(_, _)
MessagesTotal(ms, total_results) ==
    IF ms = <<>> THEN total_results
    ELSE MessagesTotal(Tail(ms),
            IF Head(ms).role = "user"
            THEN ItemsTotal(Head(ms).content, total_results)
            ELSE total_results)

\* _extract_articles_from_messages(messages): None when no article was found
extract_articles_from_messages(ms) ==
    LET articles == MessagesArticles(ms)
    IN IF articles = <<>> THEN None
       ELSE Some([articles |-> [i \in 1..Len(articles) |-> Article(articles[i])],
                  total_results |-> MessagesTotal(ms, 0)])

\* QueryRequest.response_format
ResponseFormats == {"natural", "structured", "both"}

\* main.py:155-182: the response built from the result of process_request
BuildQueryResponse(sid, response_format, res) ==
    LET articles_data == extract_articles_from_messages(res.messages)
        structured == response_format \in {"structured", "both"} /\ articles_data # None
    IN [status |-> "ok",
        session_id |-> sid,
        format |-> response_format,
        response |-> IF response_format \in {"natural", "both"}
                     THEN Some(res.response) ELSE None,
        articles |-> IF structured THEN Some(Val(articles_data).articles) ELSE None,
        total_results |-> IF structured THEN Some(Val(articles_data).total_results)
                          ELSE None]

\* main.py:184-189: any exception becomes an HTTP 500
QueryFailed == [status |-> "error", status_code |-> 500]

\* query_news calls process_request with a session id that is never empty
\* (request.session_id or str(uuid.uuid4())); a generated id is a session
\* without a stored conversation
QueryNewsStart ==
    /\ apc = "idle"
    /\ StartRequest
    /\ TruthySeq(session_id')

\* query_news returns: process_request returned, the response is built in the
\* requested format
QueryNewsReturns ==
    /\ apc = "done"
    /\ \E response_format \in ResponseFormats :
         query_response' = BuildQueryResponse(Val(session_id), response_format, returned)
    /\ apc' = "idle"
    /\ UNCHANGED <<raw, uq, gen, out>>
    /\ UNCHANGED clientVars
    /\ UNCHANGED <<conversation_history, session_id, messages, aliased,
                   intermediate_responses, returned, oracle_calls, dispatched,
                   used, entry_history>>
    /\ UNCHANGED optimizerVars
    /\ UNCHANGED ownerVars
    /\ UNCHANGED <<search_result>>

\* query_news raises HTTPException(500): process_request raised
QueryNewsFails ==
    /\ apc = "raised"
    /\ query_response' = QueryFailed
    /\ apc' = "idle"
    /\ UNCHANGED <<raw, uq, gen, out>>
    /\ UNCHANGED clientVars
    /\ UNCHANGED <<conversation_history, session_id, messages, aliased,
                   intermediate_responses, returned, oracle_calls, dispatched,
                   used, entry_history>>
    /\ UNCHANGED optimizerVars
    /\ UNCHANGED ownerVars
    /\ UNCHANGED <<search_result>>

InitServer == InitAgent

NextServer ==
    \/ QueryNewsStart
    \/ OracleRaises
    \/ TurnToolUse
    \/ TurnToolUseRaises
    \/ TurnEndTurn
    \/ TurnOtherStop
    \/ QueryNewsReturns
    \/ QueryNewsFails

SpecServer == InitServer /\ [][NextServer]_vars

\* The messages that the process_request call just answered added to the
\* conversation: everything after the conversation stored at its entry
ThisRequestMessages ==
    LET before == entry_history[Val(session_id)]
        n == IF before = None THEN 0 ELSE Len(Val(before))
    IN SubSeq(returned.messages, n + 1, Len(returned.messages))

\* C38: the articles that POST /query returns for a request in the formats
\* structured and both are exactly the articles of the tool results produced
\* while that request was processed, so no article of a tool result of an
\* earlier request of the same session is among them; in the format natural
\* no articles are returned
C38_ResponseArticlesAreThisRequests ==
    (apc = "idle" /\ query_response.status = "ok") =>
        LET mine == extract_articles_from_messages(ThisRequestMessages)
        IN /\ query_response.format \in {"structured", "both"} =>
                query_response.articles =
                    IF mine = None THEN None ELSE Some(Val(mine).articles)
           /\ query_response.format = "natural" => query_response.articles = None

====
